---- MODULE Spec2Model ----
(***************************************************************************)
(* SilentSignal: the rule-based / AI fusion pipeline.                      *)
(*                                                                         *)
(*   MCPOrchestrator   backend/mcp_orchestrator.py  six-stage workflow     *)
(*   NimoClient        backend/nimo_client.py       AI collaborator client *)
(*   Analyzer          backend/analyzer.py          fusion engine          *)
(*   AdvancedPatternDetector  pattern_detector.py   risk ladder            *)
(*                                                                         *)
(* Units.  A confidence is carried in percent (0.3 is 30, 0.8 is 80), and  *)
(* a report's risk_score in hundredths (a score of 21 is 2100), so that    *)
(* the float arithmetic of the fusion engine is exact integer arithmetic   *)
(* here.  Python's None, an absent key and a wrongly typed value are       *)
(* carried as tags next to the value.                                      *)
(***************************************************************************)
EXTENDS Integers, Sequences, FiniteSets, TLC

(***************************************************************************)
(* Bounds of the model.                                                    *)
(***************************************************************************)
\* calls of analyze_conversation made on the one orchestrator instance
MaxRuns == 2
\* largest total_score / rule-based score given to the pure functions
MaxScore == 62
\* largest per-category occurrence count given to the risk ladder
MaxCount == 2
\* most matches of one category in a text given to detect_patterns
MaxHits == 4
\* longest AI pattern list given to _combine_patterns on its own
MaxAIPatterns == 3
\* most lines of one speaker in a transcript given to _analyze_conversation_dynamics
MaxLines == 9
\* most lines of a text given to _preprocess_conversation on its own
MaxTextLines == 3
\* longest AI pattern list given to _calculate_fused_risk_score on its own
MaxAIListLen == 12

Min(a, b) == IF a <= b THEN a ELSE b
Max(a, b) == IF a >= b THEN a ELSE b

Levels == {"safe", "concerning", "abuse"}

\* confidences on a grid of 0.05 between 0 and 1, in percent
Confidences == {c \in 0..100 : c % 5 = 0}

(***************************************************************************)
(* Analyzer._calculate_fused_risk_level                                    *)
(***************************************************************************)
\* risk_hierarchy.get(level, 1)
risk_hierarchy(level) ==
    CASE level = "safe" -> 1
      [] level = "concerning" -> 2
      [] level = "abuse" -> 3
      [] OTHER -> 1

\* floor_adjust with the detector's cut-offs (15, 60) in place of 25 and 50
floor_adjust_detector_cutoffs(pattern_value, pattern_score) ==
    IF pattern_score >= 60 THEN Max(pattern_value, 3)
    ELSE IF pattern_score >= 15 THEN Max(pattern_value, 2)
    ELSE pattern_value

\* no floor: the rule-based ordinal as it is
floor_adjust_none(pattern_value, pattern_score) == pattern_value

\* the floor adjustment of the rule-based ordinal by the rule-based score

floor_adjust(pattern_value, pattern_score) ==
    IF pattern_score >= 50 THEN Max(pattern_value, 3)
    ELSE IF pattern_score >= 25 THEN Max(pattern_value, 2)
    ELSE pattern_value

\* the weights the other way round: the rule-based ordinal weighted by c
fused_value100_swapped(pattern_level, ai_level, pattern_score, ai_confidence) ==
    floor_adjust(risk_hierarchy(pattern_level), pattern_score) * ai_confidence
        + risk_hierarchy(ai_level) * (100 - ai_confidence)

\* both sides weighted one half, whatever the confidence
fused_value100_even(pattern_level, ai_level, pattern_score, ai_confidence) ==
    floor_adjust(risk_hierarchy(pattern_level), pattern_score) * 50
        + risk_hierarchy(ai_level) * 50

\* fused_value * 100: pattern_value * (1 - c) + ai_value * c with c in percent
fused_value100(pattern_level, ai_level, pattern_score, ai_confidence) ==
    floor_adjust(risk_hierarchy(pattern_level), pattern_score) * (100 - ai_confidence)
        + risk_hierarchy(ai_level) * ai_confidence

_calculate_fused_risk_level(pattern_level, ai_level, pattern_score, ai_confidence) ==
    LET fv == fused_value100(pattern_level, ai_level, pattern_score, ai_confidence)
    IN  IF fv >= 250 THEN "abuse"
        ELSE IF fv >= 150 THEN "concerning"
        ELSE "safe"

(***************************************************************************)
(* Analyzer._calculate_fused_risk_score, in hundredths:                    *)
(*   100 * (0.4 * min(ps/100, 1) + 0.6 * c * len/10), capped at 100        *)
(***************************************************************************)
_calculate_fused_risk_score(pattern_score, ai_confidence, n_ai_patterns) ==
    Min(40 * Min(pattern_score, 100) + 6 * ai_confidence * n_ai_patterns, 10000)

(***************************************************************************)
(* AdvancedPatternDetector: the rule catalog's categories, their severity  *)
(* tiers, the tier weights and the risk ladder.                            *)
(***************************************************************************)
Categories ==
    {"gaslighting", "guilt_tripping", "threats", "control_tactics",
     "emotional_manipulation", "isolation_attempts", "blame_shifting",
     "minimization", "love_bombing", "intimidation", "financial_control",
     "sexual_coercion", "passive_aggressive", "sarcasm"}

severity_of(category) ==
    CASE category \in {"threats", "sexual_coercion"} -> "critical"
      [] category \in {"gaslighting", "control_tactics", "isolation_attempts",
                       "blame_shifting", "intimidation", "financial_control"} -> "high"
      [] category \in {"guilt_tripping", "emotional_manipulation", "minimization",
                       "love_bombing", "passive_aggressive"} -> "medium"
      [] OTHER -> "low"

severity_weights(severity) ==
    CASE severity = "critical" -> 10
      [] severity = "high" -> 7
      [] severity = "medium" -> 4
      [] OTHER -> 2

ContextTypes == {"escalation", "victim_blaming", "power_imbalance"}

\* the critical categories alone
high_severity_critical_only == {"threats", "sexual_coercion"}

high_severity_patterns == {"threats", "gaslighting", "intimidation", "sexual_coercion"}

RECURSIVE SumOver(_, _)
SumOver(f, S) ==
    IF S = {} THEN 0
    ELSE LET e == CHOOSE e \in S : TRUE IN f[e] + SumOver(f, S \ {e})

\* the occurrences of all categories together
n_occurrences(pattern_counts) == SumOver(pattern_counts, DOMAIN pattern_counts)

\* len(pattern_counts): a category is a key of the dict once it has a hit
n_categories(pattern_counts) ==
    Cardinality({c \in DOMAIN pattern_counts : pattern_counts[c] > 0})

high_severity_count(pattern_counts) ==
    SumOver(pattern_counts, high_severity_patterns \cap DOMAIN pattern_counts)

\* the ladder with the context rungs tested before the score rungs
_calculate_risk_level_context_first(total_score, pattern_counts, context_indicators) ==
    IF "escalation" \in context_indicators /\ total_score >= 20 THEN "Likely Abuse"
    ELSE IF "victim_blaming" \in context_indicators /\ total_score >= 25 THEN "Likely Abuse"
    ELSE IF total_score >= 60 THEN "Likely Abuse"
    ELSE IF total_score >= 15 THEN "Concerning"
    ELSE IF n_categories(pattern_counts) >= 6 THEN "Likely Abuse"
    ELSE IF n_categories(pattern_counts) >= 2 THEN "Concerning"
    ELSE IF high_severity_count(pattern_counts) >= 2 THEN "Likely Abuse"
    ELSE IF high_severity_count(pattern_counts) >= 1 /\ total_score >= 10 THEN "Concerning"
    ELSE "Safe"

_calculate_risk_level(total_score, pattern_counts, context_indicators) ==
    IF total_score >= 60 THEN "Likely Abuse"
    ELSE IF total_score >= 35 THEN "Concerning"
    ELSE IF total_score >= 15 THEN "Concerning"
    ELSE IF "escalation" \in context_indicators /\ total_score >= 20 THEN "Likely Abuse"
    ELSE IF "victim_blaming" \in context_indicators /\ total_score >= 25 THEN "Likely Abuse"
    ELSE IF "power_imbalance" \in context_indicators /\ total_score >= 20 THEN "Concerning"
    ELSE IF n_categories(pattern_counts) >= 6 THEN "Likely Abuse"
    ELSE IF n_categories(pattern_counts) >= 4 THEN "Concerning"
    ELSE IF n_categories(pattern_counts) >= 2 THEN "Concerning"
    ELSE IF high_severity_count(pattern_counts) >= 2 THEN "Likely Abuse"
    ELSE IF high_severity_count(pattern_counts) >= 1 /\ total_score >= 10 THEN "Concerning"
    ELSE "Safe"

\* the order safe < concerning < abuse on the detector's labels
level_rank(label) ==
    CASE label = "Likely Abuse" -> 3
      [] label = "Concerning" -> 2
      [] OTHER -> 1

(***************************************************************************)
(* Values of the fusion engine.                                            *)
(*                                                                         *)
(* A rule-based match      [category, severity, matches, count, score]     *)
(* A DetectionResult       [risk_level, risk_score, patterns,              *)
(*                          total_patterns]                                *)
(* An AI pattern           [name, severity, evidence, confidence]; an      *)
(*                         absent key is Absent (confidence: -1)           *)
(* An AIResult             [risk_level, patterns, patterns_t, summary,     *)
(*                          red_flags, red_flags_t, suggestions,           *)
(*                          suggestions_t, confidence, conf_t]             *)
(*   risk_level "[]" is the empty list the parser stores for a missing     *)
(*   field; a list field's tag is "list", "absent" (no such key) or "bad"  *)
(*   (None or a number: iterating it raises TypeError); conf_t is "num",   *)
(*   "absent" or "bad" (None or a string: arithmetic raises TypeError).    *)
(***************************************************************************)
Absent == "<absent>"

\* dict.get(key, default) on a string-valued key
get_str(value, default) == IF value = Absent THEN default ELSE value

RECURSIVE SeqMap(_, _)
\* [Op(e) for e in seq]
SeqMap(Op(_), seq) ==
    IF seq = <<>> THEN <<>> ELSE <<Op(Head(seq))>> \o SeqMap(Op, Tail(seq))

Names(patterns) == {patterns[i].name : i \in DOMAIN patterns}

\* seq[:n]
Take(seq, n) == SubSeq(seq, 1, Min(Len(seq), n))

\* the entry _combine_patterns builds for a rule-based match
rule_entry(pattern) ==
    [name |-> pattern.category,
     severity |-> pattern.severity,
     evidence |-> IF pattern.matches # <<>> THEN pattern.matches[1] ELSE "Pattern detected",
     source |-> "pattern_detection",
     confidence |-> 80]

\* the entry _combine_patterns builds for an AI pattern
ai_entry(pattern) ==
    [name |-> get_str(pattern.name, "unknown"),
     severity |-> get_str(pattern.severity, "medium"),
     evidence |-> get_str(pattern.evidence, ""),
     source |-> "ai_analysis",
     confidence |-> IF pattern.confidence = -1 THEN 70 ELSE pattern.confidence]

RECURSIVE unique_patterns_first(_, _)
\* a dict keyed by name that keeps the first entry of each name
unique_patterns_first(combined, kept) ==
    IF combined = <<>> THEN kept
    ELSE IF \E j \in DOMAIN kept : kept[j].name = Head(combined).name
         THEN unique_patterns_first(Tail(combined), kept)
         ELSE unique_patterns_first(Tail(combined), Append(kept, Head(combined)))

RECURSIVE unique_patterns(_, _)
\* the dict keyed by name, in insertion order: a later entry replaces the kept one
\* only when its confidence is strictly higher
unique_patterns(combined, kept) ==
    IF combined = <<>> THEN kept
    ELSE LET p == Head(combined)
             hit == {j \in DOMAIN kept : kept[j].name = p.name}
         IN  IF hit = {} THEN unique_patterns(Tail(combined), Append(kept, p))
             ELSE LET j == CHOOSE j \in hit : TRUE
                  IN  IF p.confidence > kept[j].confidence
                      THEN unique_patterns(Tail(combined), [kept EXCEPT ![j] = p])
                      ELSE unique_patterns(Tail(combined), kept)

\* severity_order.get(severity, 0)
severity_order(severity) ==
    CASE severity = "critical" -> 4
      [] severity = "high" -> 3
      [] severity = "medium" -> 2
      [] severity = "low" -> 1
      [] OTHER -> 0

OfRank(patterns, r) == SelectSeq(patterns, LAMBDA p : severity_order(p.severity) = r)

\* sorted(..., key=severity_order, reverse=True): stable, highest tier first
sorted_patterns(patterns) ==
    OfRank(patterns, 4) \o OfRank(patterns, 3) \o OfRank(patterns, 2)
        \o OfRank(patterns, 1) \o OfRank(patterns, 0)

_combine_patterns(pattern_patterns, ai_patterns) ==
    LET combined == SeqMap(rule_entry, pattern_patterns) \o SeqMap(ai_entry, ai_patterns)
    IN  Take(sorted_patterns(unique_patterns(combined, <<>>)), 10)

RECURSIVE unique_items(_, _)
\* list(dict.fromkeys(items)): first occurrences, in order
unique_items(items, kept) ==
    IF items = <<>> THEN kept
    ELSE IF \E j \in DOMAIN kept : kept[j] = Head(items)
         THEN unique_items(Tail(items), kept)
         ELSE unique_items(Tail(items), Append(kept, Head(items)))

\* "Category Title: first match"
rule_flag(pattern) == <<pattern.category, pattern.matches[1]>>

_combine_red_flags(pattern_results, ai_red_flags) ==
    LET hits == SelectSeq(pattern_results.patterns, LAMBDA p : p.matches # <<>>)
    IN  Take(unique_items(SeqMap(rule_flag, hits) \o ai_red_flags, <<>>), 10)

base_suggestions(risk_level) ==
    IF risk_level = "safe"
    THEN <<"This conversation appears healthy and respectful",
           "Continue communicating openly and honestly",
           "Remember that healthy relationships involve mutual respect">>
    ELSE IF risk_level = "concerning"
    THEN <<"Pay attention to how this conversation makes you feel",
           "Consider discussing your concerns with a trusted friend or counselor",
           "Trust your instincts about the relationship dynamics",
           "Set clear boundaries about what behavior you find acceptable">>
    ELSE <<"This conversation shows concerning patterns of manipulation or control",
           "Please consider reaching out to a crisis hotline or counselor",
           "Your safety and well-being are important",
           "Consider talking to a trusted friend or family member",
           "Remember that you deserve to be treated with respect and kindness">>

advisory(names, category, text) == IF category \in names THEN <<text>> ELSE <<>>

pattern_suggestions(names) ==
    advisory(names, "gaslighting",
             "Consider keeping a record of conversations to verify your memory")
    \o advisory(names, "threats",
             "If you feel unsafe, please contact emergency services or a crisis hotline")
    \o advisory(names, "isolation_attempts",
             "Maintain connections with friends and family - isolation is a red flag")
    \o advisory(names, "financial_control",
             "Consider financial independence and separate accounts")
    \o advisory(names, "sexual_coercion",
             "Your consent and comfort are important - you have the right to say no")

\* the AI's suggestions placed before the advisories
_generate_fused_suggestions_ai_first(risk_level, patterns, ai_suggestions) ==
    Take(unique_items(base_suggestions(risk_level) \o ai_suggestions
                          \o pattern_suggestions(Names(patterns)), <<>>), 8)

_generate_fused_suggestions(risk_level, patterns, ai_suggestions) ==
    Take(unique_items(base_suggestions(risk_level) \o pattern_suggestions(Names(patterns))
                          \o ai_suggestions, <<>>), 8)

\* the sentences of the reasoning narrative, by kind (the numbers they quote are
\* pattern_results' total_patterns and risk_score and the AI confidence)
_generate_reasoning(pattern_results, ai_confidence, fused_risk_level) ==
    (IF pattern_results.total_patterns > 0 THEN <<"rule-based detection found">> ELSE <<>>)
    \o (IF ai_confidence > 50 THEN <<"AI analysis provided contextual reasoning">> ELSE <<>>)
    \o <<"hybrid analysis resulted in", fused_risk_level>>
    \o (IF pattern_results.risk_score >= 50 THEN <<"high pattern score">>
        ELSE IF pattern_results.risk_score >= 25 THEN <<"moderate pattern score">>
        ELSE <<>>)

\* the summary sentence, by kind, with the first three pattern names it lists
_generate_summary(risk_level, patterns) ==
    IF risk_level = "safe" THEN <<"No concerning patterns detected">>
    ELSE <<risk_level>> \o SeqMap(LAMBDA p : p.name, Take(patterns, 3))

\* a red flag is a tuple of strings: <<text>>, or <<category, match>> for the flag
\* "Category Title: match" built from a rule-based match
TechnicalFlag == <<"Technical analysis error - please review manually">>

FallbackSuggestions ==
    <<"Please review the conversation carefully",
      "Consider seeking support if you feel unsafe",
      "Trust your instincts about the relationship dynamics">>

(***************************************************************************)
(* Analyzer.fuse_analyses and its fallback                                 *)
(***************************************************************************)
\* _get_fallback_fusion reporting the ai_confidence of its fusion_breakdown (0.0)
_get_fallback_fusion_conf0(pattern_results) ==
    [risk_level |-> pattern_results.risk_level,
     risk_score |-> 100 * pattern_results.risk_score,
     patterns |-> pattern_results.patterns,
     summary |-> <<"Analysis incomplete due to technical issues">>,
     red_flags |-> <<TechnicalFlag>>,
     suggestions |-> FallbackSuggestions,
     reasoning |-> <<"Fallback analysis due to technical limitations">>,
     confidence |-> 0,
     fallback |-> TRUE]

\* `fallback` is not a key of the dict: it records which path built it
_get_fallback_fusion(pattern_results) ==
    [risk_level |-> pattern_results.risk_level,
     risk_score |-> 100 * pattern_results.risk_score,
     patterns |-> pattern_results.patterns,
     summary |-> <<"Analysis incomplete due to technical issues">>,
     red_flags |-> <<TechnicalFlag>>,
     suggestions |-> FallbackSuggestions,
     reasoning |-> <<"Fallback analysis due to technical limitations">>,
     confidence |-> 30,
     fallback |-> TRUE]

\* the statements of the try block that raise on this AIResult:
\*   risk_hierarchy.get(ai_level, 1)      TypeError, a list is unhashable
\*   1.0 - ai_weight                      TypeError, None or a string
\*   len(ai_patterns), pattern.get        TypeError / AttributeError
\*   combined_flags.extend(ai_red_flags)  TypeError, not iterable
\*   suggestions.extend(ai_suggestions)   TypeError, not iterable
fusion_raises(nemotron_results) ==
    \/ nemotron_results.risk_level = "[]"
    \/ nemotron_results.conf_t = "bad"
    \/ nemotron_results.patterns_t = "bad"
    \/ nemotron_results.red_flags_t = "bad"
    \/ nemotron_results.suggestions_t = "bad"

fused_report(pattern_results, nemotron_results) ==
    LET pattern_risk_level == pattern_results.risk_level
        pattern_score == pattern_results.risk_score
        pattern_patterns == pattern_results.patterns
        ai_risk_level == get_str(nemotron_results.risk_level, "safe")
        ai_patterns == nemotron_results.patterns
        ai_summary == get_str(nemotron_results.summary, "")
        ai_red_flags == nemotron_results.red_flags
        ai_suggestions == nemotron_results.suggestions
        ai_confidence == IF nemotron_results.conf_t = "absent" THEN 50
                         ELSE nemotron_results.confidence
        fused_risk_level == _calculate_fused_risk_level(
                                pattern_risk_level, ai_risk_level, pattern_score, ai_confidence)
        combined_patterns == _combine_patterns(pattern_patterns, ai_patterns)
    IN  [risk_level |-> fused_risk_level,
         risk_score |-> _calculate_fused_risk_score(pattern_score, ai_confidence, Len(ai_patterns)),
         patterns |-> combined_patterns,
         summary |-> IF ai_summary \notin {"", "[]"} THEN <<ai_summary>>
                     ELSE _generate_summary(fused_risk_level, combined_patterns),
         red_flags |-> _combine_red_flags(pattern_results, ai_red_flags),
         suggestions |-> _generate_fused_suggestions(
                             fused_risk_level, combined_patterns, ai_suggestions),
         reasoning |-> _generate_reasoning(pattern_results, ai_confidence, fused_risk_level),
         confidence |-> ai_confidence,
         fallback |-> FALSE]

\* `raised` tells whether the call ended in an exception leaving fuse_analyses
fuse_analyses(pattern_results, nemotron_results) ==
    IF fusion_raises(nemotron_results)
    THEN [raised |-> FALSE, value |-> _get_fallback_fusion(pattern_results)]
    ELSE [raised |-> FALSE, value |-> fused_report(pattern_results, nemotron_results)]

(***************************************************************************)
(* NimoClient.  What the remote end does is the environment's choice:      *)
(*   mode "nokey"              hosted endpoint and no API key: no request  *)
(*        "prompt_error"       building the prompt raises: no request      *)
(*        "request_exception"  requests.post raises (timeout, network)     *)
(*        "non200"             a status other than 200                     *)
(*        "bad_envelope"       200, but the body is not JSON or has no     *)
(*                             choices[0].message.content                  *)
(*        "ok"                 200 and a content string, of kind           *)
(*   kind "empty"    the empty string                                      *)
(*        "nojson"   no '{' in it                                          *)
(*        "badjson"  a '{', but the text from it to the last '}' is not    *)
(*                   JSON                                                  *)
(*        "json"     that text parses to the dict `payload`                *)
(***************************************************************************)
AIFallbackPattern ==
    [name |-> "analysis_unavailable", severity |-> "medium",
     evidence |-> "Technical limitation", confidence |-> -1]

\* _get_fallback_response with the fusion engine's default confidence (0.5)
_get_fallback_response_half ==
    [risk_level |-> "concerning",
     patterns |-> <<AIFallbackPattern>>, patterns_t |-> "list",
     summary |-> "Unable to complete full AI analysis",
     red_flags |-> << <<"AI analysis unavailable - please use pattern detection results">> >>,
     red_flags_t |-> "list",
     suggestions |-> FallbackSuggestions, suggestions_t |-> "list",
     confidence |-> 50, conf_t |-> "num"]

_get_fallback_response ==
    [risk_level |-> "concerning",
     patterns |-> <<AIFallbackPattern>>, patterns_t |-> "list",
     summary |-> "Unable to complete full AI analysis",
     red_flags |-> << <<"AI analysis unavailable - please use pattern detection results">> >>,
     red_flags_t |-> "list",
     suggestions |-> FallbackSuggestions, suggestions_t |-> "list",
     confidence |-> 30, conf_t |-> "num"]

\* _call_nim_api sending the request again after a failed one
_call_nim_api_retry(remote) ==
    CASE remote.mode = "nokey" ->
            [raised |-> FALSE, none |-> TRUE, calls |-> 0]
      [] remote.mode \in {"request_exception", "non200"} ->
            [raised |-> FALSE, none |-> TRUE, calls |-> 2]
      [] remote.mode = "bad_envelope" ->
            [raised |-> TRUE, none |-> TRUE, calls |-> 1]
      [] OTHER ->
            [raised |-> FALSE, none |-> FALSE, calls |-> 1]

\* [raised, none, calls]: whether it raised, whether it returned None, and the
\* requests it sent
_call_nim_api(remote) ==
    CASE remote.mode = "nokey" ->
            [raised |-> FALSE, none |-> TRUE, calls |-> 0]
      [] remote.mode \in {"request_exception", "non200"} ->
            [raised |-> FALSE, none |-> TRUE, calls |-> 1]
      [] remote.mode = "bad_envelope" ->
            [raised |-> TRUE, none |-> TRUE, calls |-> 1]
      [] OTHER ->
            [raised |-> FALSE, none |-> FALSE, calls |-> 1]

\* the OpenAI-SDK path catches every exception of the request itself
_call_nim_api_openai(remote) ==
    CASE remote.mode = "nokey" ->
            [raised |-> FALSE, none |-> TRUE, calls |-> 0]
      [] remote.mode \in {"request_exception", "non200", "bad_envelope"} ->
            [raised |-> FALSE, none |-> TRUE, calls |-> 1]
      [] OTHER ->
            [raised |-> FALSE, none |-> FALSE, calls |-> 1]

\* for field in required_fields: if field not in result: result[field] = []
\* required fields filled with the defaults fusion reads for a missing key
fill_required_defaults(result) ==
    [result EXCEPT
        !.risk_level = IF @ = Absent THEN "safe" ELSE @,
        !.patterns_t = IF @ = "absent" THEN "list" ELSE @,
        !.summary = IF @ = Absent THEN "" ELSE @,
        !.red_flags_t = IF @ = "absent" THEN "list" ELSE @,
        !.suggestions_t = IF @ = "absent" THEN "list" ELSE @]

fill_required(result) ==
    [result EXCEPT
        !.risk_level = IF @ = Absent THEN "[]" ELSE @,
        !.patterns_t = IF @ = "absent" THEN "list" ELSE @,
        !.summary = IF @ = Absent THEN "[]" ELSE @,
        !.red_flags_t = IF @ = "absent" THEN "list" ELSE @,
        !.suggestions_t = IF @ = "absent" THEN "list" ELSE @]

\* response None or '' is falsy; without '{' start_idx is -1; json.loads raising
\* JSONDecodeError is caught here
_parse_response(none, kind, payload) ==
    IF none \/ kind = "empty" THEN _get_fallback_response
    ELSE IF kind = "nojson" THEN _get_fallback_response
    ELSE IF kind = "badjson" THEN _get_fallback_response
    ELSE fill_required(payload)

\* NimoClient.analyze_conversation: [value, calls, raised]
nimo_analyze_conversation(use_openai_sdk, remote) ==
    IF remote.mode = "prompt_error"
    THEN [value |-> _get_fallback_response, calls |-> 0, raised |-> FALSE]
    ELSE LET response == IF use_openai_sdk THEN _call_nim_api_openai(remote)
                         ELSE _call_nim_api(remote)
         IN  IF response.raised
             THEN [value |-> _get_fallback_response, calls |-> response.calls,
                   raised |-> FALSE]
             ELSE [value |-> _parse_response(response.none, remote.kind, remote.payload),
                   calls |-> response.calls, raised |-> FALSE]

(***************************************************************************)
(* MCPOrchestrator                                                         *)
(***************************************************************************)
Threads == {1, 2}

StepNames ==
    <<"preprocessing", "rag_retrieval", "pattern_detection",
      "nemotron_analysis", "fusion_analysis", "report_generation">>

\* Optional values: None is <<>>, a value v is <<v>>
None == <<>>
Some(v) == <<v>>

\* AnalysisStep(name, status)
AnalysisStep(name, status) ==
    [name |-> name, status |-> status, result |-> None, error |-> None]

VARIABLES
    steps,      \* self.steps of the one MCPOrchestrator instance
    pc,         \* where each thread is in analyze_conversation
    frame,      \* the locals of each thread's call
    ret,        \* what each thread's last call returned
    obs,        \* per thread, what its current call did (not program state)
    trail,      \* per thread and step, the step as its call found it
                \* followed by every value its call wrote to it (not program state)
    runs,       \* calls started so far
    env,        \* the sets the environment draws a call's inputs from
    lad,        \* input and output of the risk ladder (pure-function runs)
    fus,        \* input and output of the fused level (pure-function runs)
    app         \* input and output of another pure function, run on its own

vars == <<steps, pc, frame, ret, obs, trail, runs, env, lad, fus, app>>

\* _update_step_status: the first step of that name gets all three fields
_update_step_status(ss, step_name, status, result, error) ==
    LET hit == {i \in DOMAIN ss : ss[i].name = step_name}
    IN  IF hit = {} THEN ss
        ELSE LET i == CHOOSE i \in hit : \A j \in hit : i <= j
             IN  [ss EXCEPT ![i] = [name |-> ss[i].name, status |-> status,
                                    result |-> result, error |-> error]]

step_summary(step) ==
    [step |-> step.name, status |-> step.status,
     has_result |-> step.result # None, has_error |-> step.error # None]

\* _get_workflow_summary
_get_workflow_summary(ss) == [i \in DOMAIN ss |-> step_summary(ss[i])]

\* get_workflow_status that looks at the last step only
get_workflow_status_last(ss) ==
    [steps |-> _get_workflow_summary(ss),
     overall_status |-> IF ss[Len(ss)].status = "completed" THEN "completed" ELSE "running"]

\* get_workflow_status (its entries use the key `name` for `step`)
get_workflow_status(ss) ==
    [steps |-> _get_workflow_summary(ss),
     overall_status |-> IF \A i \in DOMAIN ss : ss[i].status = "completed"
                        THEN "completed" ELSE "running"]

\* p.get("name", "")
get_name(p) == IF "name" \in DOMAIN p THEN p.name ELSE ""

_assess_safety_concerns(fusion_results) ==
    LET pattern_names == {get_name(fusion_results.patterns[i]) :
                              i \in DOMAIN fusion_results.patterns}
    IN  IF fusion_results.risk_level = "abuse"
        THEN IF "threats" \in pattern_names THEN "Immediate safety concern: Threats detected"
             ELSE IF "intimidation" \in pattern_names
                  THEN "Safety concern: Intimidation patterns detected"
             ELSE "Safety concern: Multiple abuse patterns detected"
        ELSE IF fusion_results.risk_level = "concerning"
        THEN "Monitor the situation and trust your instincts"
        ELSE "No immediate safety concerns detected"

\* the report dict; `error` and `rag_context` are None when the dict has no such
\* key, and the timestamp is left out
\* a report whose step summary is taken once report_generation is marked completed
_generate_final_report_afterwards(ss, fusion_results, rag_context) ==
    [risk_level |-> fusion_results.risk_level,
     risk_score |-> fusion_results.risk_score,
     patterns |-> fusion_results.patterns,
     summary |-> fusion_results.summary,
     red_flags |-> fusion_results.red_flags,
     suggestions |-> fusion_results.suggestions,
     reasoning |-> fusion_results.reasoning,
     confidence |-> fusion_results.confidence,
     workflow_steps |-> _get_workflow_summary(
                            _update_step_status(ss, "report_generation", "completed",
                                                Some("dict"), None)),
     rag_context |-> Some([patterns_retrieved |-> rag_context.total_patterns]),
     error |-> None,
     safety_concerns |-> _assess_safety_concerns(fusion_results)]

_generate_final_report(ss, fusion_results, rag_context) ==
    [risk_level |-> fusion_results.risk_level,
     risk_score |-> fusion_results.risk_score,
     patterns |-> fusion_results.patterns,
     summary |-> fusion_results.summary,
     red_flags |-> fusion_results.red_flags,
     suggestions |-> fusion_results.suggestions,
     reasoning |-> fusion_results.reasoning,
     confidence |-> fusion_results.confidence,
     workflow_steps |-> _get_workflow_summary(ss),
     rag_context |-> Some([patterns_retrieved |-> rag_context.total_patterns]),
     error |-> None,
     safety_concerns |-> _assess_safety_concerns(fusion_results)]

_get_error_report(ss, error_message) ==
    [risk_level |-> "concerning",
     risk_score |-> 0,
     patterns |-> <<>>,
     summary |-> <<"Analysis failed due to technical error", error_message>>,
     red_flags |-> <<TechnicalFlag>>,
     suggestions |-> FallbackSuggestions,
     reasoning |-> <<"Fallback analysis due to technical error">>,
     confidence |-> 0,
     workflow_steps |-> _get_workflow_summary(ss),
     rag_context |-> None,
     error |-> Some(error_message),
     safety_concerns |-> "Unable to assess safety concerns due to technical error"]

\* a handler that logs and raises again
on_exception_reraise(ss, error_message) ==
    [kind |-> "raised", report |-> _get_error_report(ss, error_message)]

\* except Exception as e: return self._get_error_report(str(e))
on_exception(ss, error_message) ==
    [kind |-> "report", report |-> _get_error_report(ss, error_message)]

(***************************************************************************)
(* Inputs.  A text is None (not a string) or a transcript: its lines, each *)
(* [colon, speaker, message] after strip(), blank lines left out.          *)
(***************************************************************************)
Line(speaker, message) == [colon |-> TRUE, speaker |-> speaker, message |-> message]
Bare(message) == [colon |-> FALSE, speaker |-> "", message |-> message]

Texts ==
    {[is_str |-> FALSE, lines |-> <<>>],
     [is_str |-> TRUE, lines |-> <<>>],
     [is_str |-> TRUE, lines |-> <<Bare("that never happened")>>],
     [is_str |-> TRUE, lines |-> <<Line("Person A", "you're crazy"),
                                  Line("Person B", "I do care about you"),
                                  Line("Person A", "you'll be sorry")>>]}

\* what str(e) can be: an exception built without arguments has the message ''
ExcMessages == {"", "'NoneType' object has no attribute 'strip'"}

RuleMatch(category, matches, count) ==
    [category |-> category, severity |-> severity_of(category), matches |-> matches,
     count |-> count, score |-> count * severity_weights(severity_of(category))]

RECURSIVE SeqSum(_, _)
SeqSum(seq, field) ==
    IF seq = <<>> THEN 0 ELSE Head(seq)[field] + SeqSum(Tail(seq), field)

Detection(risk_level, patterns) ==
    [risk_level |-> risk_level, risk_score |-> SeqSum(patterns, "score"),
     patterns |-> patterns, total_patterns |-> SeqSum(patterns, "count")]

\* results of PatternDetector.detect_patterns
DetectionResults ==
    {Detection("safe", <<>>),
     Detection("concerning",
               <<RuleMatch("gaslighting", <<"that never happened", "you're crazy">>, 2),
                 RuleMatch("guilt_tripping", <<"if you loved me">>, 1)>>),
     Detection("concerning",
               <<RuleMatch("threats", <<"you'll be sorry", "i'll leave you", "you'll regret">>, 5),
                 RuleMatch("guilt_tripping", <<"you're selfish">>, 1)>>),
     Detection("abuse",
               <<RuleMatch("gaslighting", <<"you're crazy">>, 1),
                 RuleMatch("threats", <<"you'll be sorry", "i'll hurt myself">>, 6)>>)}

AIPattern(name, severity, evidence, confidence) ==
    [name |-> name, severity |-> severity, evidence |-> evidence, confidence |-> confidence]

\* the dict json.loads returns
Payload(risk_level, patterns, red_flags, suggestions, confidence) ==
    [risk_level |-> risk_level,
     patterns |-> patterns, patterns_t |-> "list",
     summary |-> "AI summary",
     red_flags |-> red_flags, red_flags_t |-> "list",
     suggestions |-> suggestions, suggestions_t |-> "list",
     confidence |-> confidence, conf_t |-> "num"]

EmptyPayload ==
    [risk_level |-> Absent,
     patterns |-> <<>>, patterns_t |-> "absent",
     summary |-> Absent,
     red_flags |-> <<>>, red_flags_t |-> "absent",
     suggestions |-> <<>>, suggestions_t |-> "absent",
     confidence |-> 0, conf_t |-> "absent"]

FullPayload ==
    Payload("concerning",
            <<AIPattern("gaslighting", "high", "you're crazy", 90),
              AIPattern("love_bombing", Absent, Absent, -1)>>,
            << <<"gaslighting", "that never happened">>, <<"denies what happened">> >>,
            <<"Trust your instincts about the relationship dynamics", "Talk to a friend">>,
            80)

Payloads ==
    {FullPayload,
     Payload("safe", <<>>, <<>>, <<>>, 90),
     Payload("abuse", <<AIPattern("threats", "critical", "you'll be sorry", 60)>>,
             << <<"explicit threat">> >>, <<>>, 25),
     [FullPayload EXCEPT !.risk_level = Absent],
     [FullPayload EXCEPT !.conf_t = "absent", !.confidence = 0],
     [FullPayload EXCEPT !.conf_t = "bad", !.confidence = 0],
     [FullPayload EXCEPT !.suggestions_t = "bad", !.suggestions = <<>>],
     EmptyPayload}

FailureModes == {"nokey", "prompt_error", "request_exception", "non200", "bad_envelope"}
UnparsedKinds == {"empty", "nojson", "badjson"}

Remotes ==
    {[mode |-> m, kind |-> "empty", payload |-> EmptyPayload] : m \in FailureModes}
    \cup {[mode |-> "ok", kind |-> k, payload |-> EmptyPayload] : k \in UnparsedKinds}
    \cup {[mode |-> "ok", kind |-> "json", payload |-> p] : p \in Payloads}

\* whether the remote call failed: no usable JSON came back
remote_failed(remote) == remote.mode \in FailureModes \/ remote.kind \in UnparsedKinds

(***************************************************************************)
(* _preprocess_conversation                                                *)
(***************************************************************************)
RECURSIVE count_speakers(_, _)
count_speakers(messages, counts) ==
    IF messages = <<>> THEN counts
    ELSE LET sp == Head(messages).speaker
         IN  count_speakers(Tail(messages),
                 IF sp \in DOMAIN counts THEN [counts EXCEPT ![sp] = @ + 1]
                 ELSE [k \in DOMAIN counts \cup {sp} |->
                          IF k = sp THEN 1 ELSE counts[k]])

_preprocess_conversation(conversation_text) ==
    LET with_colon == SelectSeq(conversation_text.lines, LAMBDA l : l.colon)
        messages == SeqMap(LAMBDA l : [speaker |-> l.speaker, message |-> l.message],
                           with_colon)
        speaker_counts == count_speakers(messages, [k \in {} |-> 0])
    IN  [messages |-> messages,
         total_messages |-> Len(messages),
         speakers |-> DOMAIN speaker_counts,
         speaker_counts |-> speaker_counts,
         is_balanced |-> Cardinality({speaker_counts[k] : k \in DOMAIN speaker_counts}) <= 1]

(***************************************************************************)
(* The state machine.  analyze_conversation runs, per stage i:             *)
(*   at "start"   _update_step_status(name_i, "running")                   *)
(*   at "exec"    the stage itself, which may raise                        *)
(*   at "finish"  _update_step_status(name_i, "completed", result)         *)
(* then "return" (return final_report) or, from a raise, "except" (the     *)
(* handler of lines 97-99).                                                *)
(***************************************************************************)
Idle == [stage |-> 0, at |-> "idle"]

NoFrame ==
    [conversation_text |-> None, preprocessed_data |-> None, rag_context |-> None,
     pattern_results |-> None, nemotron_results |-> None, fusion_results |-> None,
     final_report |-> None, exc |-> None]

\* raised_at: the stage an exception left (0: none); component: the stage whose
\* component raised past its own boundary (0: none); remote: what the remote call
\* did; calls: the requests sent; local: the step summary of the call's own writes
\* at the time its report was built; matches: total_patterns of the detection result
\* (-1: none yet); ai_level, ai_patterns: the level of the AIResult and the length
\* of its pattern list (-1: none yet or no list); pattern_results: the detection
\* result; response: what the remote end did
NoObs ==
    [raised_at |-> 0, component |-> 0, remote |-> "none", calls |-> 0, local |-> None,
     matches |-> -1, ai_level |-> "", ai_patterns |-> -1, pattern_results |-> None,
     response |-> None]

\* the step array a call would hold were it call-local: each step as the call found
\* it, or as the call last wrote it
local_steps(t) == [i \in DOMAIN StepNames |-> trail[t][i][Len(trail[t][i])]]

InitSteps == [i \in DOMAIN StepNames |-> AnalysisStep(StepNames[i], "pending")]

NoLadder == [applied |-> FALSE, total_score |-> 0, pattern_counts |-> [c \in {} |-> 0],
             context_indicators |-> {}, level |-> "", raised_score |-> 0,
             raised_level |-> ""]

NoFusion == [applied |-> FALSE, pattern_level |-> "safe", ai_level |-> "safe",
             pattern_score |-> 0, ai_confidence |-> 0, level |-> ""]

\* no pure function is run on its own
NoApp == [fn |-> ""]

\* every input of the model
FullEnv == [texts |-> Texts, detections |-> DetectionResults, remotes |-> Remotes]

\* the inputs of the two-thread runs: a text that is not a string and a transcript,
\* one detection result, a remote that fails and one that answers
LeanEnv ==
    [texts |-> {x \in Texts : ~x.is_str \/ Len(x.lines) = 3},
     detections |-> {d \in DetectionResults : d.risk_level = "abuse"},
     remotes |-> {r \in Remotes : r.mode = "non200" \/ (r.kind = "json" /\ r.payload = FullPayload)}]

\* MCPOrchestrator.__init__, and no call made yet
OrchestratorInit ==
    /\ steps = InitSteps
    /\ pc = [t \in Threads |-> Idle]
    /\ frame = [t \in Threads |-> NoFrame]
    /\ ret = [t \in Threads |-> [kind |-> "none"]]
    /\ obs = [t \in Threads |-> NoObs]
    /\ trail = [t \in Threads |-> [i \in DOMAIN StepNames |-> <<InitSteps[i]>>]]
    /\ runs = 0

Init ==
    OrchestratorInit /\ env = FullEnv /\ lad = NoLadder /\ fus = NoFusion /\ app = NoApp

InitConcurrent ==
    OrchestratorInit /\ env = LeanEnv /\ lad = NoLadder /\ fus = NoFusion /\ app = NoApp

pure == <<env, lad, fus, app>>

\* a write of thread t to self.steps through _update_step_status
Write(t, i, status, result, error) ==
    /\ steps' = _update_step_status(steps, StepNames[i], status, result, error)
    /\ trail' = [trail EXCEPT ![t][i] =
                    Append(@, [name |-> StepNames[i], status |-> status,
                               result |-> result, error |-> error])]

\* thread t enters analyze_conversation(text)
Enter(t, text) ==
    /\ pc[t] = Idle
    /\ runs < MaxRuns
    /\ runs' = runs + 1
    /\ pc' = [pc EXCEPT ![t] = [stage |-> 1, at |-> "start"]]
    /\ frame' = [frame EXCEPT ![t] = [NoFrame EXCEPT !.conversation_text = Some(text)]]
    /\ ret' = [ret EXCEPT ![t] = [kind |-> "none"]]
    /\ obs' = [obs EXCEPT ![t] = NoObs]
    /\ trail' = [trail EXCEPT ![t] = [i \in DOMAIN StepNames |-> <<steps[i]>>]]
    /\ UNCHANGED <<steps, pure>>

\* the only caller is the main thread: one call at a time
Call == \E text \in env.texts : Enter(1, text)

\* a second thread calls, whatever the first is doing
CallConcurrently == \E t \in Threads, text \in env.texts : t = runs + 1 /\ Enter(t, text)

MarkRunning(t) ==
    /\ pc[t].at = "start"
    /\ Write(t, pc[t].stage, "running", None, None)
    /\ pc' = [pc EXCEPT ![t].at = "exec"]
    /\ UNCHANGED <<frame, ret, obs, runs, pure>>

\* the stage's result is stored in the step; only `is not None` is ever read of it
MarkCompleted(t) ==
    /\ pc[t].at = "finish"
    /\ Write(t, pc[t].stage, "completed", Some("dict"), None)
    /\ pc' = [pc EXCEPT ![t] = IF pc[t].stage < Len(StepNames)
                               THEN [stage |-> pc[t].stage + 1, at |-> "start"]
                               ELSE [stage |-> pc[t].stage, at |-> "return"]]
    /\ UNCHANGED <<frame, ret, obs, runs, pure>>

Executing(t, i) == pc[t].stage = i /\ pc[t].at = "exec"

\* the stage returns `value` into the local `local`; the locals in `dead` are not
\* read by any later statement of the call
Done(t, local, value, dead) ==
    /\ frame' = [frame EXCEPT ![t] =
                    [k \in DOMAIN @ |-> IF k = local THEN Some(value)
                                        ELSE IF k \in dead THEN None ELSE @[k]]]
    /\ pc' = [pc EXCEPT ![t].at = "finish"]

Preprocess(t) ==
    /\ Executing(t, 1)
    /\ frame[t].conversation_text[1].is_str
    /\ Done(t, "preprocessed_data", _preprocess_conversation(frame[t].conversation_text[1]),
            {"conversation_text"})
    /\ UNCHANGED <<steps, trail, ret, obs, runs, pure>>

\* the knowledge base is a file: what load_pattern_knowledge finds is the
\* environment's choice, and so is how many of its entries match
Retrieve(t) ==
    /\ Executing(t, 2)
    /\ \E n \in 0..1 :
          Done(t, "rag_context", [total_patterns |-> n], {})
    /\ UNCHANGED <<steps, trail, ret, obs, runs, pure>>

Detect(t) ==
    /\ Executing(t, 3)
    /\ \E d \in env.detections :
          /\ Done(t, "pattern_results", d, {"preprocessed_data"})
          /\ obs' = [obs EXCEPT ![t].matches = d.total_patterns,
                                 ![t].pattern_results = Some(d)]
    /\ UNCHANGED <<steps, trail, ret, runs, pure>>

\* an exception that leaves the stage makes the call run the stage again
RaiseAndRetry(t, msg) ==
    /\ frame' = frame
    /\ pc' = [pc EXCEPT ![t].at = "start"]

\* an exception that leaves the stage takes the call to the handler
Raise(t, msg) ==
    /\ frame' = [frame EXCEPT ![t] = [NoFrame EXCEPT !.exc = Some(msg)]]
    /\ pc' = [pc EXCEPT ![t].at = "except"]

Nemotron(t) ==
    /\ Executing(t, 4)
    /\ \E remote \in env.remotes, use_openai_sdk \in BOOLEAN :
          LET r == nimo_analyze_conversation(use_openai_sdk, remote)
          IN  /\ IF r.raised THEN Raise(t, "NIM API error")
                 ELSE Done(t, "nemotron_results", r.value, {})
              /\ obs' = [obs EXCEPT ![t].remote =
                            IF remote_failed(remote) THEN "failed" ELSE "answered",
                         ![t].response = Some(remote),
                         ![t].calls = @ + r.calls,
                         ![t].raised_at = IF r.raised THEN 4 ELSE @,
                         ![t].component = IF r.raised THEN 4 ELSE @,
                         ![t].ai_level = IF r.raised THEN @ ELSE r.value.risk_level,
                         ![t].ai_patterns =
                             IF r.raised \/ r.value.patterns_t # "list" THEN @
                             ELSE Len(r.value.patterns)]
    /\ UNCHANGED <<steps, trail, ret, runs, pure>>

Fuse(t) ==
    /\ Executing(t, 5)
    /\ LET r == fuse_analyses(frame[t].pattern_results[1], frame[t].nemotron_results[1])
       IN  /\ IF r.raised THEN Raise(t, "Fusion analysis error")
              ELSE Done(t, "fusion_results", r.value, {})
           /\ obs' = [obs EXCEPT ![t].raised_at = IF r.raised THEN 5 ELSE @,
                                  ![t].component = IF r.raised THEN 5 ELSE @]
    /\ UNCHANGED <<steps, trail, ret, runs, pure>>

GenerateReport(t) ==
    /\ Executing(t, 6)
    /\ Done(t, "final_report",
            _generate_final_report(steps, frame[t].fusion_results[1], frame[t].rag_context[1]),
            {"pattern_results", "nemotron_results", "fusion_results", "rag_context"})
    /\ obs' = [obs EXCEPT ![t].local = Some(_get_workflow_summary(local_steps(t)))]
    /\ UNCHANGED <<steps, trail, ret, runs, pure>>

\* an exception leaves the running stage: the TypeError of a text that is not a
\* string, an unreadable knowledge base, a MemoryError, a stage patched to raise
StageRaises(t) ==
    /\ pc[t].at = "exec"
    /\ \E msg \in ExcMessages :
          /\ pc[t].stage = 1 /\ ~frame[t].conversation_text[1].is_str => msg # ""
          /\ Raise(t, msg)
    /\ obs' = [obs EXCEPT ![t].raised_at = pc[t].stage]
    /\ UNCHANGED <<steps, trail, ret, runs, pure>>

HandleException(t) ==
    /\ pc[t].at = "except"
    /\ ret' = [ret EXCEPT ![t] = on_exception(steps, frame[t].exc[1])]
    /\ pc' = [pc EXCEPT ![t] = Idle]
    /\ frame' = [frame EXCEPT ![t] = NoFrame]
    /\ obs' = [obs EXCEPT ![t].local = Some(_get_workflow_summary(local_steps(t)))]
    /\ UNCHANGED <<steps, trail, runs, pure>>

ReturnReport(t) ==
    /\ pc[t].at = "return"
    /\ ret' = [ret EXCEPT ![t] = [kind |-> "report", report |-> frame[t].final_report[1]]]
    /\ pc' = [pc EXCEPT ![t] = Idle]
    /\ frame' = [frame EXCEPT ![t] = NoFrame]
    /\ UNCHANGED <<steps, trail, obs, runs, pure>>

Step(t) ==
    \/ MarkRunning(t)
    \/ Preprocess(t)
    \/ Retrieve(t)
    \/ Detect(t)
    \/ Nemotron(t)
    \/ Fuse(t)
    \/ GenerateReport(t)
    \/ MarkCompleted(t)
    \/ StageRaises(t)
    \/ HandleException(t)
    \/ ReturnReport(t)

Next == Call \/ \E t \in Threads : Step(t)

\* one orchestrator, calls one after the other
Spec == Init /\ [][Next]_vars

NextConcurrent == CallConcurrently \/ \E t \in Threads : Step(t)

\* one orchestrator shared by two threads
SpecConcurrent == InitConcurrent /\ [][NextConcurrent]_vars

(***************************************************************************)
(* The pure functions on their own: the inputs are drawn at the start, the *)
(* actions apply the function.                                             *)
(***************************************************************************)
\* categories outside high_severity_patterns, in catalog order
OtherCategories ==
    <<"guilt_tripping", "control_tactics", "emotional_manipulation",
      "isolation_attempts", "blame_shifting", "minimization">>

\* pattern_counts with `a` threats hits, `b` gaslighting hits and one hit in each of
\* the first k other categories; a category without a hit is no key of the dict
PatternCounts(a, b, k) ==
    LET hit == (IF a > 0 THEN {"threats"} ELSE {}) \cup (IF b > 0 THEN {"gaslighting"} ELSE {})
                   \cup {OtherCategories[j] : j \in 1..k}
    IN  [c \in hit |-> IF c = "threats" THEN a ELSE IF c = "gaslighting" THEN b ELSE 1]

InitLadder ==
    /\ OrchestratorInit
    /\ env = FullEnv
    /\ fus = NoFusion
    /\ app = NoApp
    /\ \E s \in 0..MaxScore, a \in 0..MaxCount, b \in 0..MaxCount,
          k \in 0..Len(OtherCategories), ctx \in SUBSET ContextTypes :
          lad = [NoLadder EXCEPT !.total_score = s, !.pattern_counts = PatternCounts(a, b, k),
                                 !.context_indicators = ctx]

\* risk_level = self._calculate_risk_level(total_score, pattern_counts, context_indicators)
Classify ==
    /\ ~lad.applied
    /\ lad' = [lad EXCEPT !.applied = TRUE,
                          !.level = _calculate_risk_level(
                                        lad.total_score, lad.pattern_counts,
                                        lad.context_indicators)]
    /\ UNCHANGED <<steps, pc, frame, ret, obs, trail, runs, env, fus, app>>

\* the same call with total_score one higher and everything else as it was
ClassifyRaised ==
    /\ lad.applied
    /\ lad.raised_level = ""
    /\ lad' = [lad EXCEPT !.raised_score = lad.total_score + 1,
                          !.raised_level = _calculate_risk_level(
                                               lad.total_score + 1, lad.pattern_counts,
                                               lad.context_indicators)]
    /\ UNCHANGED <<steps, pc, frame, ret, obs, trail, runs, env, fus, app>>

NextLadder == Classify \/ ClassifyRaised

SpecLadder == InitLadder /\ [][NextLadder]_vars

InitFusion ==
    /\ OrchestratorInit
    /\ env = FullEnv
    /\ lad = NoLadder
    /\ app = NoApp
    /\ \E pl \in Levels, al \in Levels, s \in 0..MaxScore, c \in Confidences :
          fus = [NoFusion EXCEPT !.pattern_level = pl, !.ai_level = al,
                                 !.pattern_score = s, !.ai_confidence = c]

\* fused_risk_level = self._calculate_fused_risk_level(...)
FuseLevel ==
    /\ ~fus.applied
    /\ fus' = [fus EXCEPT !.applied = TRUE,
                          !.level = _calculate_fused_risk_level(
                                        fus.pattern_level, fus.ai_level,
                                        fus.pattern_score, fus.ai_confidence)]
    /\ UNCHANGED <<steps, pc, frame, ret, obs, trail, runs, env, lad, app>>

NextFusion == FuseLevel

SpecFusion == InitFusion /\ [][NextFusion]_vars

(***************************************************************************)
(* detect_patterns on its own.  A text is given by what the catalog's      *)
(* regular expressions find in it: the matches of each category and        *)
(* the context types with a match.                                         *)
(***************************************************************************)
\* the categories in the order of self.patterns
CatalogOrder ==
    <<"gaslighting", "guilt_tripping", "threats", "control_tactics",
      "emotional_manipulation", "isolation_attempts", "blame_shifting",
      "minimization", "love_bombing", "intimidation", "financial_control",
      "sexual_coercion", "passive_aggressive", "sarcasm">>

\* re.findall of the triggers of one category, in the order of its trigger list:
\* a text with n occurrences of the category has them under its first two
\* triggers, the larger half under the first; a match is <<category, trigger,
\* position among that trigger's matches>>
findall(category, n) ==
    <<[i \in 1..(n - n \div 2) |-> <<category, 1, i>>],
      [i \in 1..(n \div 2) |-> <<category, 2, i>>]>>

\* the loop over the triggers of one category: what category_matches,
\* pattern_counts[category] and severity_scores[category] hold after it
RECURSIVE scan_category(_, _)
scan_category(per_trigger, weight) ==
    IF per_trigger = <<>> THEN [category_matches |-> <<>>, count |-> 0, score |-> 0]
    ELSE LET before == scan_category(SubSeq(per_trigger, 1, Len(per_trigger) - 1), weight)
             matches == per_trigger[Len(per_trigger)]
         IN  IF matches # <<>>
             THEN [category_matches |-> before.category_matches \o matches,
                   count |-> before.count + Len(matches),
                   score |-> before.score + Len(matches) * weight]
             ELSE before

\* an entry of detected_patterns that keeps every match as a sample
PatternMatch_unclipped(category, scanned) ==
    [category |-> category, severity |-> severity_of(category),
     matches |-> scanned.category_matches,
     count |-> Len(scanned.category_matches), score |-> scanned.score]

\* one entry of detected_patterns
PatternMatch(category, scanned) ==
    [category |-> category, severity |-> severity_of(category),
     matches |-> Take(scanned.category_matches, 3),
     count |-> Len(scanned.category_matches), score |-> scanned.score]

detect_patterns(occurrences, context_indicators) ==
    LET scanned == [c \in DOMAIN occurrences |->
                       scan_category(findall(c, occurrences[c]),
                                     severity_weights(severity_of(c)))]
        hit == {c \in DOMAIN occurrences : scanned[c].category_matches # <<>>}
        pattern_counts == [c \in hit |-> scanned[c].count]
        severity_scores == [c \in hit |-> scanned[c].score]
        total_score == SumOver(severity_scores, hit)
    IN  [patterns |-> SeqMap(LAMBDA c : PatternMatch(c, scanned[c]),
                             SelectSeq(CatalogOrder, LAMBDA c : c \in hit)),
         pattern_counts |-> pattern_counts,
         total_patterns |-> SumOver(pattern_counts, hit),
         risk_level |-> _calculate_risk_level(total_score, pattern_counts,
                                              context_indicators),
         risk_score |-> total_score,
         context_indicators |-> context_indicators,
         severity_breakdown |-> severity_scores]

\* the model's other variables while a pure function runs on its own
Quiet == OrchestratorInit /\ env = FullEnv /\ lad = NoLadder /\ fus = NoFusion

Still == UNCHANGED <<steps, pc, frame, ret, obs, trail, runs, env, lad, fus>>

\* texts with up to MaxHits matches in each high-severity category and up to one
\* match in a medium and in a low category
Occurrences ==
    {[c \in Categories |->
         IF c \in DOMAIN h THEN h[c]
         ELSE IF c = "guilt_tripping" THEN g
         ELSE IF c = "sarcasm" THEN z ELSE 0] :
     h \in [{"threats", "gaslighting", "intimidation", "sexual_coercion"} -> 0..MaxHits],
     g \in 0..1, z \in 0..1}

InitDetect ==
    /\ Quiet
    /\ \E occ \in Occurrences, ctx \in SUBSET ContextTypes :
          app = [fn |-> "detect_patterns", occurrences |-> occ,
                 context_indicators |-> ctx, applied |-> FALSE, out |-> <<>>]

\* result = self.detector.detect_patterns(text)
DetectPatterns ==
    /\ app.fn = "detect_patterns" /\ ~app.applied
    /\ app' = [app EXCEPT !.applied = TRUE,
                          !.out = detect_patterns(app.occurrences, app.context_indicators)]
    /\ Still

NextDetect == DetectPatterns

SpecDetect == InitDetect /\ [][NextDetect]_vars

(***************************************************************************)
(* _combine_patterns on its own                                            *)
(***************************************************************************)
\* how many categories the rule-based list holds: the first k of the catalog
RuleLens == {0, 1, 9, 10, 12}

RulePatterns(k) ==
    SeqMap(LAMBDA c : RuleMatch(c, <<"match">>, 1), SubSeq(CatalogOrder, 1, k))

\* AI patterns: a name of the catalog, a name outside it or none; a confidence
\* under 0.8, over 0.8 or none
AIPatterns ==
    {AIPattern(n, "high", "evidence", c) :
        n \in {"gaslighting", "stonewalling", Absent}, c \in {-1, 60, 90}}

RECURSIVE SeqsUpTo(_, _)
\* the sequences over S of length n or less
SeqsUpTo(S, n) ==
    IF n = 0 THEN {<<>>}
    ELSE LET shorter == SeqsUpTo(S, n - 1)
         IN  shorter \cup {Append(q, e) : q \in shorter, e \in S}

InitCombine ==
    /\ Quiet
    /\ \E k \in RuleLens, ai \in SeqsUpTo(AIPatterns, MaxAIPatterns) :
          app = [fn |-> "_combine_patterns", pattern_patterns |-> RulePatterns(k),
                 ai_patterns |-> ai, applied |-> FALSE, out |-> <<>>]

\* combined_patterns = self._combine_patterns(pattern_patterns, ai_patterns)
CombinePatterns ==
    /\ app.fn = "_combine_patterns" /\ ~app.applied
    /\ app' = [app EXCEPT !.applied = TRUE,
                          !.out = _combine_patterns(app.pattern_patterns, app.ai_patterns)]
    /\ Still

NextCombine == CombinePatterns

SpecCombine == InitCombine /\ [][NextCombine]_vars

(***************************************************************************)
(* _parse_response on its own, followed by the reads of fuse_analyses      *)
(***************************************************************************)
AIFields == {"risk_level", "patterns", "summary", "red_flags", "suggestions", "confidence"}

\* the JSON object `payload` without the keys in `fields`
Omit(payload, fields) ==
    [payload EXCEPT
        !.risk_level = IF "risk_level" \in fields THEN Absent ELSE @,
        !.patterns = IF "patterns" \in fields THEN <<>> ELSE @,
        !.patterns_t = IF "patterns" \in fields THEN "absent" ELSE @,
        !.summary = IF "summary" \in fields THEN Absent ELSE @,
        !.red_flags = IF "red_flags" \in fields THEN <<>> ELSE @,
        !.red_flags_t = IF "red_flags" \in fields THEN "absent" ELSE @,
        !.suggestions = IF "suggestions" \in fields THEN <<>> ELSE @,
        !.suggestions_t = IF "suggestions" \in fields THEN "absent" ELSE @,
        !.confidence = IF "confidence" \in fields THEN 0 ELSE @,
        !.conf_t = IF "confidence" \in fields THEN "absent" ELSE @]

\* what fuse_analyses reads of the AIResult: nemotron_results.get(key, default)
fusion_inputs(nemotron_results) ==
    [ai_risk_level |-> get_str(nemotron_results.risk_level, "safe"),
     ai_patterns |-> IF nemotron_results.patterns_t = "bad" THEN "bad"
                     ELSE nemotron_results.patterns,
     ai_summary |-> get_str(nemotron_results.summary, ""),
     ai_red_flags |-> IF nemotron_results.red_flags_t = "bad" THEN "bad"
                      ELSE nemotron_results.red_flags,
     ai_suggestions |-> IF nemotron_results.suggestions_t = "bad" THEN "bad"
                        ELSE nemotron_results.suggestions,
     ai_confidence |-> IF nemotron_results.conf_t = "absent" THEN 50
                       ELSE IF nemotron_results.conf_t = "bad" THEN -1
                       ELSE nemotron_results.confidence]

InitParse ==
    /\ Quiet
    /\ \E base \in {FullPayload, Payload("abuse", <<>>, <<>>, <<>>, 25)},
          omitted \in SUBSET AIFields :
          app = [fn |-> "_parse_response", omitted |-> omitted,
                 payload |-> Omit(base, omitted), applied |-> FALSE,
                 out |-> <<>>, used |-> <<>>]

\* result = self._parse_response(response), then the reads at the top of
\* fuse_analyses
ParseResponse ==
    /\ app.fn = "_parse_response" /\ ~app.applied
    /\ LET result == _parse_response(FALSE, "json", app.payload)
       IN  app' = [app EXCEPT !.applied = TRUE, !.out = result,
                              !.used = fusion_inputs(result)]
    /\ Still

NextParse == ParseResponse

SpecParse == InitParse /\ [][NextParse]_vars

(***************************************************************************)
(* _analyze_conversation_dynamics on its own.  A transcript is its lines,  *)
(* each given by the speaker label it starts with ("<label>: ...").        *)
(***************************************************************************)
\* n lines of one speaker
LinesOf(speaker, n) == [i \in 1..n |-> speaker]

\* the averages of the line lengths and the rounded percentages are left out
_analyze_conversation_dynamics(lines) ==
    LET person_a_lines == SelectSeq(lines, LAMBDA l : l = "Person A")
        person_b_lines == SelectSeq(lines, LAMBDA l : l = "Person B")
        a_count == Len(person_a_lines)
        b_count == Len(person_b_lines)
        total_messages == a_count + b_count
        \* abs(a_percentage - b_percentage) > 30, in whole numbers
        gap_over_30 == IF total_messages > 0
                       THEN (Max(a_count, b_count) - Min(a_count, b_count)) * 100
                                > 30 * total_messages
                       ELSE FALSE
    IN  [person_a_messages |-> a_count,
         person_b_messages |-> b_count,
         is_one_sided |-> gap_over_30,
         total_messages |-> total_messages]

SpeakerPairs == {<<"Person A", "Person B">>, <<"Alice", "Bob">>, <<"Person A", "Bob">>}

InitDynamics ==
    /\ Quiet
    /\ \E names \in SpeakerPairs, k1 \in 1..MaxLines, k2 \in 1..MaxLines :
          app = [fn |-> "_analyze_conversation_dynamics", speakers |-> names,
                 counts |-> <<k1, k2>>,
                 lines |-> LinesOf(names[1], k1) \o LinesOf(names[2], k2),
                 applied |-> FALSE, out |-> <<>>]

\* dynamics = self._analyze_conversation_dynamics(conversation_text)
AnalyzeDynamics ==
    /\ app.fn = "_analyze_conversation_dynamics" /\ ~app.applied
    /\ app' = [app EXCEPT !.applied = TRUE,
                          !.out = _analyze_conversation_dynamics(app.lines)]
    /\ Still

NextDynamics == AnalyzeDynamics

SpecDynamics == InitDynamics /\ [][NextDynamics]_vars

(***************************************************************************)
(* _preprocess_conversation on its own, on texts given character by        *)
(* character: a text is a sequence of one-character strings.               *)
(***************************************************************************)
Whitespace == {" ", "\n"}

RECURSIVE LStrip(_)
LStrip(chars) ==
    IF chars # <<>> /\ Head(chars) \in Whitespace THEN LStrip(Tail(chars)) ELSE chars

RECURSIVE RStrip(_)
RStrip(chars) ==
    IF chars # <<>> /\ chars[Len(chars)] \in Whitespace
    THEN RStrip(SubSeq(chars, 1, Len(chars) - 1)) ELSE chars

\* str.strip()
Strip(chars) == RStrip(LStrip(chars))

RECURSIVE Split(_, _, _)
\* str.split(sep): the pieces between the separators; `piece` is the one being read
Split(chars, sep, piece) ==
    IF chars = <<>> THEN <<piece>>
    ELSE IF Head(chars) = sep THEN <<piece>> \o Split(Tail(chars), sep, <<>>)
    ELSE Split(Tail(chars), sep, Append(piece, Head(chars)))

\* the position of the first c in chars, 0 when there is none
Find(chars, c) ==
    IF \E i \in DOMAIN chars : chars[i] = c
    THEN CHOOSE i \in DOMAIN chars : chars[i] = c /\ \A j \in 1..(i - 1) : chars[j] # c
    ELSE 0

\* the position of the last c in chars, 0 when there is none
RFind(chars, c) ==
    IF \E i \in DOMAIN chars : chars[i] = c
    THEN CHOOSE i \in DOMAIN chars : chars[i] = c /\ \A j \in (i + 1)..Len(chars) : chars[j] # c
    ELSE 0

\* a line read with line.rsplit(':', 1)
parse_line_rsplit(line) ==
    LET at == RFind(line, ":")
    IN  IF at = 0 THEN [colon |-> FALSE, speaker |-> <<>>, message |-> <<>>]
        ELSE [colon |-> TRUE, speaker |-> Strip(SubSeq(line, 1, at - 1)),
              message |-> Strip(SubSeq(line, at + 1, Len(line)))]

\* if ':' in line: speaker, message = line.split(':', 1), both stripped
parse_line(line) ==
    LET at == Find(line, ":")
    IN  IF at = 0 THEN [colon |-> FALSE, speaker |-> <<>>, message |-> <<>>]
        ELSE [colon |-> TRUE, speaker |-> Strip(SubSeq(line, 1, at - 1)),
              message |-> Strip(SubSeq(line, at + 1, Len(line)))]

\* cleaned_text.split('\n'), each line stripped, the empty ones skipped
scan_lines(chars) ==
    LET lines == SeqMap(Strip, Split(Strip(chars), "\n", <<>>))
    IN  SeqMap(parse_line, SelectSeq(lines, LAMBDA l : l # <<>>))

\* lines as written, each with the message it is expected to give
LineShapes ==
    {[chars |-> <<>>, colon |-> FALSE, speaker |-> <<>>, message |-> <<>>],
     [chars |-> <<" ", " ">>, colon |-> FALSE, speaker |-> <<>>, message |-> <<>>],
     [chars |-> <<"A", " ", "b">>, colon |-> FALSE, speaker |-> <<>>, message |-> <<>>],
     [chars |-> <<"A", ":", "b">>, colon |-> TRUE, speaker |-> <<"A">>, message |-> <<"b">>],
     [chars |-> <<" ", "A", " ", ":", " ", "b", " ">>, colon |-> TRUE,
      speaker |-> <<"A">>, message |-> <<"b">>],
     [chars |-> <<"b", ":">>, colon |-> TRUE, speaker |-> <<"b">>, message |-> <<>>],
     [chars |-> <<":">>, colon |-> TRUE, speaker |-> <<>>, message |-> <<>>],
     [chars |-> <<"A", ":", "b", ":", "A">>, colon |-> TRUE,
      speaker |-> <<"A">>, message |-> <<"b", ":", "A">>],
     [chars |-> <<"b", ":", " ", "A", " ", "b", " ">>, colon |-> TRUE,
      speaker |-> <<"b">>, message |-> <<"A", " ", "b">>]}

RECURSIVE Join(_)
\* '\n'.join(lines)
Join(lines) ==
    IF lines = <<>> THEN <<>>
    ELSE IF Len(lines) = 1 THEN lines[1].chars
    ELSE lines[1].chars \o <<"\n">> \o Join(Tail(lines))

InitPreprocess ==
    /\ Quiet
    /\ \E written \in SeqsUpTo(LineShapes, MaxTextLines) :
          app = [fn |-> "_preprocess_conversation", written |-> written,
                 text |-> Join(written), applied |-> FALSE, out |-> <<>>]

\* result = self._preprocess_conversation(text)
PreprocessText ==
    /\ app.fn = "_preprocess_conversation" /\ ~app.applied
    /\ app' = [app EXCEPT !.applied = TRUE,
                  !.out = _preprocess_conversation(
                              [is_str |-> TRUE, lines |-> scan_lines(app.text)])]
    /\ Still

NextPreprocess == PreprocessText

SpecPreprocess == InitPreprocess /\ [][NextPreprocess]_vars

(***************************************************************************)
(* _calculate_fused_risk_score on its own                                  *)
(***************************************************************************)
\* rule-based scores under, at and over 100
ScoreSamples == {0, 40, 100, 130}

InitScore ==
    /\ Quiet
    /\ \E ps \in ScoreSamples, c \in Confidences, n \in 0..MaxAIListLen :
          app = [fn |-> "_calculate_fused_risk_score", pattern_score |-> ps,
                 ai_confidence |-> c, n_ai_patterns |-> n,
                 applied |-> FALSE, out |-> -1]

\* fused_risk_score = self._calculate_fused_risk_score(...)
FuseScore ==
    /\ app.fn = "_calculate_fused_risk_score" /\ ~app.applied
    /\ app' = [app EXCEPT !.applied = TRUE,
                          !.out = _calculate_fused_risk_score(
                                      app.pattern_score, app.ai_confidence,
                                      app.n_ai_patterns)]
    /\ Still

NextScore == FuseScore

SpecScore == InitScore /\ [][NextScore]_vars

(***************************************************************************)
(* Analyzer.fuse_analyses on its own                                       *)
(***************************************************************************)
\* the categories _generate_fused_suggestions has an advisory for, in the
\* order of its tests
AdvisoryOrder ==
    <<"gaslighting", "threats", "isolation_attempts", "financial_control",
      "sexual_coercion">>

\* the rule-based list holds the first k categories of the catalog; the AI names
\* any of the advisory categories; its suggestions are none, one of its own, or
\* one that repeats an advisory followed by one of its own; its risk_level is a
\* level or is left out of the JSON object
InitAnalyzer ==
    /\ Quiet
    /\ \E k \in {0, 2, 12}, level \in Levels, score \in {0, 30, 60},
          named \in SUBSET {AdvisoryOrder[i] : i \in DOMAIN AdvisoryOrder},
          ai_level \in Levels \cup {Absent}, confidence \in {30, 90},
          ai_suggestions \in
              {<<>>, <<"Seek support from a counselor">>,
               <<"Consider financial independence and separate accounts",
                 "Seek support from a counselor">>} :
          app = [fn |-> "fuse_analyses",
                 pattern_results |->
                     [risk_level |-> level, risk_score |-> score,
                      patterns |-> RulePatterns(k), total_patterns |-> k],
                 nemotron_results |->
                     _parse_response(FALSE, "json",
                         Payload(ai_level,
                                 SeqMap(LAMBDA c : AIPattern(c, "high", "evidence", 90),
                                        SelectSeq(AdvisoryOrder, LAMBDA c : c \in named)),
                                 <<<<"AI red flag">>>>, ai_suggestions, confidence)),
                 applied |-> FALSE, out |-> <<>>]

\* fusion_results = self.analyzer.fuse_analyses(pattern_results, nemotron_results)
FuseAnalyses ==
    /\ app.fn = "fuse_analyses" /\ ~app.applied
    /\ app' = [app EXCEPT !.applied = TRUE,
                          !.out = fuse_analyses(app.pattern_results,
                                                app.nemotron_results).value]
    /\ Still

NextAnalyzer == FuseAnalyses

SpecAnalyzer == InitAnalyzer /\ [][NextAnalyzer]_vars

(***************************************************************************)
(* Properties                                                              *)
(***************************************************************************)
\* thread t's call has returned (or raised) and t has not called again
Returned(t) == pc[t] = Idle /\ ret[t].kind # "none"

Report(t) == ret[t].report

\* C1: whatever the text and whichever stage raises, a call of analyze_conversation
\* that ends has returned a report, not raised, and the report's risk_level is safe,
\* concerning or abuse.
C1_AlwaysAReport ==
    \A t \in Threads :
        Returned(t) => ret[t].kind = "report" /\ Report(t).risk_level \in Levels

\* a call in which the last stage raised has returned its report
C1_Witness ==
    \E t \in Threads :
        Returned(t) /\ obs[t].raised_at = 6 /\ ret[t].kind = "report"
            /\ Report(t).risk_level = "concerning"

\* C2: with two calls running on the one orchestrator, the workflow_steps of a
\* call's report are the steps as that call found and wrote them: no write of the
\* other call shows in them.
C2_CallLocalSteps ==
    \A t \in Threads :
        Returned(t) => Report(t).workflow_steps = obs[t].local[1]

\* C3: a run starts by resetting the six steps, so a step the latest run has not
\* written yet shows as pending, without result and without error, in
\* get_workflow_status.
C3_ResetAtStart ==
    \A t \in Threads :
        (pc[t] # Idle \/ Returned(t)) =>
            \A i \in DOMAIN StepNames :
                Len(trail[t][i]) = 1 =>
                    LET shown == get_workflow_status(steps).steps[i]
                    IN  shown.status = "pending" /\ ~shown.has_result /\ ~shown.has_error

Statuses(t, i) == [k \in DOMAIN trail[t][i] |-> trail[t][i][k].status]

IsPrefix(a, b) == Len(a) <= Len(b) /\ SubSeq(b, 1, Len(a)) = a

\* C4: within a run a step goes pending, running, then completed or failed; the
\* step of a stage that raised ends failed with its error recorded; and a call that
\* has returned leaves no step running.
C4_StepLifecycle ==
    \A t \in Threads :
        /\ \A i \in DOMAIN StepNames :
              \/ IsPrefix(Statuses(t, i), <<"pending", "running", "completed">>)
              \/ IsPrefix(Statuses(t, i), <<"pending", "running", "failed">>)
        /\ Returned(t) /\ obs[t].raised_at # 0 =>
              /\ steps[obs[t].raised_at].status = "failed"
              /\ steps[obs[t].raised_at].error # None
        /\ Returned(t) => \A i \in DOMAIN StepNames : steps[i].status # "running"

\* C5: when the remote call of the AI collaborator fails (it raises, times out,
\* answers with a status other than 200 or with text that is not JSON) and no stage
\* raises past its component, the call returns a report whose risk_level is safe,
\* concerning or abuse and whose confidence is 0.3.
C5_FallbackTotality ==
    \A t \in Threads :
        Returned(t) /\ obs[t].remote = "failed" /\ obs[t].raised_at = 0 =>
            /\ ret[t].kind = "report"
            /\ Report(t).risk_level \in Levels
            /\ Report(t).confidence = 30

\* a call whose remote call failed returned abuse, on the rule-based score
C5_Witness ==
    \E t \in Threads :
        Returned(t) /\ obs[t].remote = "failed" /\ obs[t].raised_at = 0
            /\ Report(t).risk_level = "abuse" /\ Report(t).confidence = 30

\* C6: whenever the remote call fails, NimoClient.analyze_conversation does not
\* raise, has sent at most one request, and returns the fixed fallback AIResult:
\* level concerning, confidence 0.3, the one pattern analysis_unavailable.
C6_FailsClosed ==
    \A t \in Threads :
        obs[t].remote = "failed" =>
            /\ obs[t].component # 4
            /\ obs[t].calls <= 1
            /\ frame[t].nemotron_results # None =>
                  LET a == frame[t].nemotron_results[1]
                  IN  /\ a.risk_level = "concerning"
                      /\ a.conf_t = "num" /\ a.confidence = 30
                      /\ a.patterns_t = "list" /\ Len(a.patterns) = 1
                      /\ a.patterns[1].name = "analysis_unavailable"

\* the fallback came back after one request that failed
C6_Witness ==
    \E t \in Threads :
        /\ obs[t].remote = "failed" /\ obs[t].calls = 1
        /\ frame[t].nemotron_results # None
        /\ frame[t].nemotron_results[1].confidence = 30

\* an AIResult on which a statement of the try block of fuse_analyses raises
Malformed(ai) ==
    \/ ai.risk_level = "[]"
    \/ ai.conf_t = "bad"
    \/ "bad" \in {ai.patterns_t, ai.red_flags_t, ai.suggestions_t}

\* C7: fuse_analyses never raises, and when a statement inside it raises, the
\* report it returns has the rule-based level and score, the technical-failure
\* red flag alone, and confidence 0.3.
C7_FusionTotal ==
    \A t \in Threads :
        /\ obs[t].component # 5
        /\ frame[t].fusion_results # None /\ Malformed(frame[t].nemotron_results[1]) =>
              LET f == frame[t].fusion_results[1]
                  p == frame[t].pattern_results[1]
              IN  /\ f.risk_level = p.risk_level
                  /\ f.risk_score = 100 * p.risk_score
                  /\ f.red_flags = <<TechnicalFlag>>
                  /\ f.confidence = 30

\* fusion took its fallback on an AIResult without risk_level and kept the
\* rule-based abuse
C7_Witness ==
    \E t \in Threads :
        /\ frame[t].fusion_results # None
        /\ frame[t].nemotron_results[1].risk_level = "[]"
        /\ frame[t].fusion_results[1].fallback
        /\ frame[t].fusion_results[1].risk_level = "abuse"
        /\ frame[t].fusion_results[1].risk_score > 0

\* C8: when a stage raises past its component, the report returned is the uniform
\* error report: level concerning, score 0, no patterns, the fallback reasoning,
\* and an error field that is a non-empty string.
C8_UniformErrorReport ==
    \A t \in Threads :
        Returned(t) /\ obs[t].raised_at # 0 =>
            /\ ret[t].kind = "report"
            /\ Report(t).risk_level = "concerning"
            /\ Report(t).risk_score = 0
            /\ Report(t).patterns = <<>>
            /\ Report(t).reasoning = <<"Fallback analysis due to technical error">>
            /\ Report(t).error # None
            /\ Report(t).error[1] # ""

\* C9, as claimed: when the rule-based level and the AI level are equal, the fused
\* level is that level, whatever the score and the confidence.
C9_AgreementIdempotent ==
    fus.applied /\ fus.pattern_level = fus.ai_level => fus.level = fus.pattern_level

\* C9, amended: when the two levels are equal and the rule-based score does not
\* lift the floor above that level (a score under 25 for safe, under 50 for
\* concerning, any score for abuse), the fused level is that level, whatever the
\* confidence.
C9_AgreementBelowFloor ==
    /\ fus.applied
    /\ fus.pattern_level = fus.ai_level
    /\ fus.pattern_level = "safe" => fus.pattern_score < 25
    /\ fus.pattern_level = "concerning" => fus.pattern_score < 50
    => fus.level = fus.pattern_level

\* both sides say concerning at a score of 30 that lifts the floor to concerning only
C9_Witness ==
    /\ fus.applied
    /\ fus.pattern_level = "concerning" /\ fus.ai_level = "concerning"
    /\ fus.pattern_score = 30 /\ fus.ai_confidence = 30
    /\ fus.level = "concerning"

\* C10: with the counts and the context indicators as they are, a higher
\* total_score never gives a lower level.
C10_LadderMonotone ==
    lad.raised_level # "" => level_rank(lad.raised_level) >= level_rank(lad.level)

\* the matches of the text are all in the high-severity categories
OnlyHighSeverity(occurrences) ==
    \A c \in DOMAIN occurrences :
        occurrences[c] > 0 => c \in {"threats", "gaslighting", "intimidation", "sexual_coercion"}

Detected == app.fn = "detect_patterns" /\ app.applied

\* C11: a text whose only matches are two or more occurrences, taken together, of
\* threats, gaslighting, intimidation and sexual_coercion triggers is classified
\* concerning or higher, never safe; with three gaslighting occurrences the result
\* lists category gaslighting with a count of at least 3.
C11_HighSeverityNeverSafe ==
    Detected /\ OnlyHighSeverity(app.occurrences)
        /\ SumOver(app.occurrences, DOMAIN app.occurrences) >= 2 =>
        /\ level_rank(app.out.risk_level) >= 2
        /\ app.occurrences["gaslighting"] >= 3 =>
              \E i \in DOMAIN app.out.patterns :
                  /\ app.out.patterns[i].category = "gaslighting"
                  /\ app.out.patterns[i].count >= 3

\* two gaslighting matches and nothing else: a score of 14, under every score rung
C11_Witness ==
    /\ Detected /\ OnlyHighSeverity(app.occurrences)
    /\ app.occurrences["gaslighting"] = 2
    /\ app.out.risk_score = 14
    /\ level_rank(app.out.risk_level) >= 2

\* C13: a text whose only matches are two or more threats triggers is classified
\* abuse.
C13_ThreatsAreAbuse ==
    Detected /\ app.occurrences["threats"] >= 2
        /\ (\A c \in DOMAIN app.occurrences : c # "threats" => app.occurrences[c] = 0) =>
        level_rank(app.out.risk_level) = 3

\* C12: when the text has no catalog match and the collaborator adds no signal (it
\* answers safe with no patterns, or it fails and its fallback is used), the report
\* has risk_level safe and no patterns.
C12_NoSignalIsSafe ==
    \A t \in Threads :
        /\ Returned(t) /\ obs[t].raised_at = 0 /\ obs[t].matches = 0
        /\ \/ obs[t].remote = "failed"
           \/ obs[t].ai_level = "safe" /\ obs[t].ai_patterns = 0
        => Report(t).risk_level = "safe" /\ Report(t).patterns = <<>>

Combined == app.fn = "_combine_patterns" /\ app.applied

\* the entries that go into the merge: rule-based ones at 0.8, AI ones at their own
\* confidence or 0.7
Candidates ==
    LET all == SeqMap(rule_entry, app.pattern_patterns) \o SeqMap(ai_entry, app.ai_patterns)
    IN  {all[i] : i \in DOMAIN all}

\* no two entries of the merged list share a name, and each entry is a candidate of
\* the highest confidence among those of its name
OnePerNameHighest(out) ==
    /\ \A i, j \in DOMAIN out : out[i].name = out[j].name => i = j
    /\ \A i \in DOMAIN out :
          /\ out[i] \in Candidates
          /\ \A c \in Candidates : c.name = out[i].name => c.confidence <= out[i].confidence

\* C14, as claimed: the merged list has exactly one entry for every distinct name of
\* the two lists, the one of highest confidence.
C14_OneEntryPerName ==
    Combined =>
        /\ OnePerNameHighest(app.out)
        /\ Names(app.out) = {c.name : c \in Candidates}

\* C14, amended: the merged list has at most one entry per name, each the one of
\* highest confidence of its name; it has an entry for every distinct name when
\* there are ten or fewer, and ten entries when there are more.
C14_OneEntryPerNameUpToTen ==
    Combined =>
        LET names == {c.name : c \in Candidates}
        IN  /\ OnePerNameHighest(app.out)
            /\ Names(app.out) \subseteq names
            /\ Len(app.out) = Min(Cardinality(names), 10)

\* gaslighting is in both lists and the AI's entry, at 0.9, is the one kept
C14_Witness ==
    /\ Combined
    /\ \E i \in DOMAIN app.pattern_patterns : app.pattern_patterns[i].category = "gaslighting"
    /\ \E i \in DOMAIN app.out :
          /\ app.out[i].name = "gaslighting"
          /\ app.out[i].source = "ai_analysis"
          /\ app.out[i].confidence = 90

\* C15: when the collaborator's JSON omits a field, fusion reads the documented
\* default for it: an empty list for patterns, red_flags and suggestions, 0.0 for
\* confidence and safe for risk_level.
C15_MissingFieldDefaults ==
    app.fn = "_parse_response" /\ app.applied =>
        /\ "patterns" \in app.omitted => app.used.ai_patterns = <<>>
        /\ "red_flags" \in app.omitted => app.used.ai_red_flags = <<>>
        /\ "suggestions" \in app.omitted => app.used.ai_suggestions = <<>>
        /\ "confidence" \in app.omitted => app.used.ai_confidence = 0
        /\ "risk_level" \in app.omitted => app.used.ai_risk_level = "safe"

\* C16: in a two-speaker transcript where one speaker's share of the messages is
\* more than 30 points above the other's, dynamics.is_one_sided is true, whatever
\* the speakers are called.
C16_OneSidedAnyNames ==
    app.fn = "_analyze_conversation_dynamics" /\ app.applied =>
        LET k1 == app.counts[1]
            k2 == app.counts[2]
        IN  (Max(k1, k2) - Min(k1, k2)) * 100 > 30 * (k1 + k2) => app.out.is_one_sided

\* C17: the lines with a ':' become the messages, in line order, each with the
\* trimmed text before the first ':' as speaker and the trimmed rest as body;
\* total_messages is the sum of the speakers' counts; is_balanced says that all
\* speakers have the same count; a text without any ':' gives no message,
\* total_messages 0 and is_balanced true.
C17_Preprocessor ==
    app.fn = "_preprocess_conversation" /\ app.applied =>
        LET expected == SeqMap(LAMBDA l : [speaker |-> l.speaker, message |-> l.message],
                               SelectSeq(app.written, LAMBDA l : l.colon))
            counts == app.out.speaker_counts
        IN  /\ app.out.messages = expected
            /\ app.out.total_messages = Len(expected)
            /\ app.out.total_messages = SumOver(counts, DOMAIN counts)
            /\ app.out.is_balanced <=>
                  \A a, b \in DOMAIN counts : counts[a] = counts[b]
            /\ expected = <<>> =>
                  app.out.total_messages = 0 /\ app.out.is_balanced

\* three lines with a ':', one of them with two, from speakers with unequal counts
C17_Witness ==
    /\ app.fn = "_preprocess_conversation" /\ app.applied
    /\ app.out.total_messages = 3
    /\ ~app.out.is_balanced
    /\ \E i \in DOMAIN app.out.messages : app.out.messages[i].message = <<"b", ":", "A">>

\* C18: get_workflow_status always lists the six steps in the order preprocessing,
\* rag_retrieval, pattern_detection, the AI analysis, fusion_analysis,
\* report_generation, each with a status of pending, running, completed or failed,
\* and its overall_status is completed exactly when all six are completed.
C18_WorkflowStatusShape ==
    LET status == get_workflow_status(steps)
        order == <<"preprocessing", "rag_retrieval", "pattern_detection",
                   "nemotron_analysis", "fusion_analysis", "report_generation">>
    IN  /\ Len(status.steps) = 6
        /\ \A i \in 1..6 :
              /\ status.steps[i].step = order[i]
              /\ status.steps[i].status \in {"pending", "running", "completed", "failed"}
        /\ status.overall_status = "completed" <=>
              \A i \in 1..6 : steps[i].status = "completed"

\* a second run is under way on the steps a first run completed: the first step is
\* running again, the last still completed
C18_Witness ==
    /\ runs = 2
    /\ steps[1].status = "running"
    /\ steps[6].status = "completed"
    /\ get_workflow_status(steps).overall_status = "running"

\* the statuses thread t's current call has written to step i, in order
Written(t, i) == SubSeq(Statuses(t, i), 2, Len(trail[t][i]))

\* C19: a call runs the six stages in order and never again: it sets a step to
\* running only after it has completed every earlier step, it has at most one step
\* running at a time, it starts each step at most once, and after a stage raised it
\* starts no later stage.
C19_StrictSequence ==
    \A t \in Threads :
        /\ \A i \in DOMAIN StepNames :
              /\ Written(t, i) \in {<<>>, <<"running">>, <<"running", "completed">>}
              /\ Written(t, i) # <<>> =>
                    \A j \in 1..(i - 1) : Written(t, j) = <<"running", "completed">>
        /\ Cardinality({i \in DOMAIN StepNames : Written(t, i) = <<"running">>}) <= 1
        /\ obs[t].raised_at # 0 =>
              \A j \in DOMAIN StepNames : j > obs[t].raised_at => Written(t, j) = <<>>

\* a call that raised in pattern detection has returned: it completed the two
\* stages before and wrote nothing to the three after
C19_Witness ==
    \E t \in Threads :
        /\ Returned(t) /\ obs[t].raised_at = 3
        /\ Written(t, 2) = <<"running", "completed">>
        /\ Written(t, 3) = <<"running">>
        /\ Written(t, 4) = <<>>

\* the ordered ladder as the specification words it, first matching rule wins;
\* 3 is abuse, 2 concerning, 1 safe
LadderAsSpecified(score, counts, indicators) ==
    LET distinct == Cardinality({c \in DOMAIN counts : counts[c] >= 1})
        severe == {"threats", "gaslighting", "intimidation", "sexual_coercion"} \cap DOMAIN counts
        severe_hits == SumOver(counts, severe)
    IN  CASE score >= 60 -> 3
          [] score < 60 /\ score >= 15 -> 2
          [] score < 15 /\ "escalation" \in indicators /\ score >= 20 -> 3
          [] score < 15 /\ "victim_blaming" \in indicators /\ score >= 25 -> 3
          [] score < 15 /\ "power_imbalance" \in indicators /\ score >= 20 -> 2
          [] score < 15 /\ distinct >= 6 -> 3
          [] score < 15 /\ distinct < 6 /\ distinct >= 2 -> 2
          [] score < 15 /\ distinct < 2 /\ severe_hits >= 2 -> 3
          [] score < 15 /\ distinct < 2 /\ severe_hits < 2 /\ severe_hits >= 1 /\ score >= 10 -> 2
          [] OTHER -> 1

\* C20: for every total score, per-category counts and context indicators, the
\* detector's level is the level of the specification's ordered ladder.
C20_LadderAsSpecified ==
    lad.applied =>
        level_rank(lad.level) =
            LadderAsSpecified(lad.total_score, lad.pattern_counts, lad.context_indicators)

\* a score of 14 from one category with two high-severity hits: abuse, by the last
\* rung but one
C20_Witness ==
    /\ lad.applied
    /\ lad.total_score = 14
    /\ DOMAIN lad.pattern_counts = {"gaslighting"}
    /\ lad.pattern_counts["gaslighting"] = 2
    /\ lad.level = "Likely Abuse"

\* the ordinal of a level: safe 1, concerning 2, abuse 3
Ordinal(level) == IF level = "abuse" THEN 3 ELSE IF level = "concerning" THEN 2 ELSE 1

\* the rule-based ordinal after the floor: at least 3 from a score of 50, at least 2
\* from 25
Floored(level, score) ==
    LET r == Ordinal(level)
    IN  IF score >= 50 THEN 3 ELSE IF score >= 25 /\ r < 2 THEN 2 ELSE r

\* C21: the fused level is the threshold of r*(1-c) + a*c, with a the AI ordinal and
\* r the floored rule-based ordinal: abuse from 2.5, concerning from 1.5, else safe.
C21_WeightedThreshold ==
    fus.applied =>
        LET sum100 == Floored(fus.pattern_level, fus.pattern_score) * (100 - fus.ai_confidence)
                          + Ordinal(fus.ai_level) * fus.ai_confidence
        IN  fus.level = IF sum100 >= 250 THEN "abuse"
                        ELSE IF sum100 >= 150 THEN "concerning" ELSE "safe"

\* rule-based safe at a score of 30 (floor 2) against an AI abuse at 0.5: the sum is
\* exactly 2.5, abuse
C21_Witness ==
    /\ fus.applied
    /\ fus.pattern_level = "safe" /\ fus.pattern_score = 30
    /\ fus.ai_level = "abuse" /\ fus.ai_confidence = 50
    /\ fus.level = "abuse"

\* C26: whatever the AI level, a rule-based score of 50 or more with an AI
\* confidence of 0.25 or less fuses to abuse, and a score of 25 or more with a
\* confidence of 0.5 or less never fuses to safe.
C26_FloorHolds ==
    fus.applied =>
        /\ fus.pattern_score >= 50 /\ fus.ai_confidence <= 25 => fus.level = "abuse"
        /\ fus.pattern_score >= 25 /\ fus.ai_confidence <= 50 => fus.level # "safe"

\* rule-based safe at a score of 50 against an AI safe at 0.25: abuse
C26_Witness ==
    /\ fus.applied
    /\ fus.pattern_level = "safe" /\ fus.pattern_score = 50
    /\ fus.ai_level = "safe" /\ fus.ai_confidence = 25
    /\ fus.level = "abuse"

\* C27: against the collaborator's fixed fallback (concerning at 0.3) the fused level
\* is the rule-based level after the floor, for every rule-based level and score.
C27_DegradedKeepsRuleVerdict ==
    fus.applied /\ fus.ai_level = "concerning" /\ fus.ai_confidence = 30 =>
        Ordinal(fus.level) = Floored(fus.pattern_level, fus.pattern_score)

\* rule-based safe under the floor against the fallback stays safe
C27_Witness ==
    /\ fus.applied
    /\ fus.ai_level = "concerning" /\ fus.ai_confidence = 30
    /\ fus.pattern_level = "safe" /\ fus.pattern_score = 10
    /\ fus.level = "safe"

\* C22: the fused score is 100 * (0.4 * min(rule_score/100, 1) + 0.6 * confidence *
\* min(count(AI patterns)/10, 1)), for AI pattern lists of any length; in
\* hundredths, with the confidence in percent.
C22_FusedScoreFormula ==
    app.fn = "_calculate_fused_risk_score" /\ app.applied =>
        LET rule == IF app.pattern_score > 100 THEN 100 ELSE app.pattern_score
            count == IF app.n_ai_patterns > 10 THEN 10 ELSE app.n_ai_patterns
        IN  app.out = 40 * rule + 6 * app.ai_confidence * count

\* the weight of a tier as the documentation gives it
TierWeight(category) ==
    CASE category \in {"threats", "sexual_coercion"} -> 10
      [] category \in {"gaslighting", "control_tactics", "isolation_attempts",
                       "blame_shifting", "intimidation", "financial_control"} -> 7
      [] category \in {"guilt_tripping", "emotional_manipulation", "minimization",
                       "love_bombing", "passive_aggressive"} -> 4
      [] OTHER -> 2

\* C23: detect_patterns emits exactly one entry for each category with a trigger
\* hit and none for a category without; an entry's count is the number of trigger
\* matches of its category in the text, its samples are the first min(count, 3)
\* matches and its score is count times the tier weight; risk_score is the sum of
\* the entries' scores and total_patterns the sum of their counts.
C23_OneEntryPerHitCategory ==
    Detected =>
        LET emitted == app.out.patterns
            found(c) == findall(c, app.occurrences[c])[1] \o findall(c, app.occurrences[c])[2]
        IN  /\ \A c \in Categories :
                  Cardinality({i \in 1..Len(emitted) : emitted[i].category = c})
                      = IF app.occurrences[c] >= 1 THEN 1 ELSE 0
            /\ \A i \in 1..Len(emitted) :
                  LET m == emitted[i]
                  IN  /\ m.count = app.occurrences[m.category]
                      /\ Len(m.matches) = Min(m.count, 3)
                      /\ IsPrefix(m.matches, found(m.category))
                      /\ m.score = m.count * TierWeight(m.category)
            /\ app.out.risk_score = SeqSum(emitted, "score")
            /\ app.out.total_patterns = SeqSum(emitted, "count")

\* a text with four threats matches under two triggers, one guilt_tripping match
\* and no gaslighting match
C23_Witness ==
    /\ Detected
    /\ app.occurrences["threats"] = 4 /\ app.occurrences["guilt_tripping"] = 1
    /\ app.occurrences["gaslighting"] = 0
    /\ Len(app.out.patterns) = 2
    /\ app.out.patterns[2].matches
           = <<<<"threats", 1, 1>>, <<"threats", 1, 2>>, <<"threats", 2, 1>>>>
    /\ app.out.risk_score = 44

Fused == app.fn = "fuse_analyses" /\ app.applied

\* the name of an entry of a report's pattern list, if it has one
NameOf(entry) == IF "name" \in DOMAIN entry THEN <<entry.name>> ELSE <<>>

\* C24: every report of fuse_analyses, on the normal and on the fallback path, has
\* a pattern list of at most 10 entries, ordered by non-increasing severity tier,
\* in which no two entries share a name.
C24_PatternListShape ==
    Fused =>
        LET listed == app.out.patterns
        IN  /\ Len(listed) <= 10
            /\ \A i, j \in 1..Len(listed) :
                  i < j =>
                      /\ severity_order(listed[i].severity) >= severity_order(listed[j].severity)
                      /\ NameOf(listed[i]) # <<>> => NameOf(listed[i]) # NameOf(listed[j])

\* the advisory fusion has for a category
AdvisoryOf(category) ==
    CASE category = "gaslighting" ->
             "Consider keeping a record of conversations to verify your memory"
      [] category = "threats" ->
             "If you feel unsafe, please contact emergency services or a crisis hotline"
      [] category = "isolation_attempts" ->
             "Maintain connections with friends and family - isolation is a red flag"
      [] category = "financial_control" ->
             "Consider financial independence and separate accounts"
      [] category = "sexual_coercion" ->
             "Your consent and comfort are important - you have the right to say no"

\* how many boilerplate suggestions a fused level has
BoilerplateLen(risk_level) ==
    IF risk_level = "safe" THEN 3 ELSE IF risk_level = "concerning" THEN 4 ELSE 5

\* the advisory categories present in a merged pattern list, in advisory order
PresentAdvisories(patterns) ==
    SelectSeq(AdvisoryOrder, LAMBDA c : \E i \in DOMAIN patterns : patterns[i].name = c)

\* C25 as stated: the suggestion list holds the advisory of every advisory
\* category present in the merged pattern list, after the risk-level boilerplate
\* and before any AI-provided suggestion.
C25_AdvisoriesPresent ==
    Fused /\ ~app.out.fallback =>
        LET suggestions == app.out.suggestions
            present == PresentAdvisories(app.out.patterns)
            base == BoilerplateLen(app.out.risk_level)
        IN  \A r \in DOMAIN present :
                /\ base + r <= Len(suggestions)
                /\ suggestions[base + r] = AdvisoryOf(present[r])

\* C25: the suggestion list has at most 8 entries; the advisory of the r-th
\* advisory category present in the merged pattern list stands at position
\* (number of boilerplate entries + r) when that position is at most 8 and is left
\* out otherwise; the positions before hold the boilerplate of the fused level and
\* the positions after hold AI-provided suggestions.
C25_AdvisoriesWithinLimit ==
    Fused /\ ~app.out.fallback =>
        LET suggestions == app.out.suggestions
            present == PresentAdvisories(app.out.patterns)
            base == BoilerplateLen(app.out.risk_level)
            provided == app.nemotron_results.suggestions
        IN  /\ Len(suggestions) <= 8
            /\ Len(suggestions) >= Min(8, base + Len(present))
            /\ \A r \in DOMAIN present :
                  IF base + r <= 8
                  THEN suggestions[base + r] = AdvisoryOf(present[r])
                  ELSE \A i \in DOMAIN suggestions : suggestions[i] # AdvisoryOf(present[r])
            /\ \A i \in DOMAIN suggestions :
                  /\ i <= base => suggestions[i] = base_suggestions(app.out.risk_level)[i]
                  /\ i > base + Len(present) =>
                        \E k \in DOMAIN provided : suggestions[i] = provided[k]

\* fused level abuse with all five advisory categories merged: the advisories of
\* financial_control and sexual_coercion are cut
C25_Witness ==
    /\ Fused /\ ~app.out.fallback
    /\ app.out.risk_level = "abuse"
    /\ Len(PresentAdvisories(app.out.patterns)) = 5
    /\ Len(app.out.suggestions) = 8
    /\ app.out.suggestions[8] = AdvisoryOf("isolation_attempts")

OmitsRiskLevel(t) ==
    /\ obs[t].response # None
    /\ obs[t].response[1].mode = "ok" /\ obs[t].response[1].kind = "json"
    /\ obs[t].response[1].payload.risk_level = Absent

\* C29: when the collaborator's response parses as JSON but omits risk_level, the
\* parser stores an empty list in that field and fusion takes its fallback path:
\* the final report carries the rule-based level and score, confidence 0.3 and
\* only the technical-failure red flag, and none of the patterns, red flags and
\* suggestions the AI supplied.
C29_MissingLevelFallsBack ==
    \A t \in Threads :
        OmitsRiskLevel(t) =>
            /\ obs[t].ai_level = "[]"
            /\ Returned(t) /\ obs[t].raised_at = 0 =>
                  LET rule == obs[t].pattern_results[1]
                      supplied == obs[t].response[1].payload
                  IN  /\ Report(t).risk_level = rule.risk_level
                      /\ Report(t).risk_score = 100 * rule.risk_score
                      /\ Report(t).confidence = 30
                      /\ Report(t).red_flags = <<TechnicalFlag>>
                      /\ Report(t).patterns = rule.patterns
                      /\ \A i \in DOMAIN Report(t).patterns, k \in DOMAIN supplied.patterns :
                            get_name(Report(t).patterns[i]) # supplied.patterns[k].name
                      /\ \A k \in DOMAIN supplied.red_flags :
                            \A i \in DOMAIN Report(t).red_flags :
                                Report(t).red_flags[i] # supplied.red_flags[k]
                      /\ Report(t).suggestions = FallbackSuggestions

\* a run with rule-based abuse whose AI answer named patterns, red flags and
\* suggestions but no risk_level
C29_Witness ==
    \E t \in Threads :
        /\ OmitsRiskLevel(t) /\ Returned(t) /\ obs[t].raised_at = 0
        /\ obs[t].response[1].payload.patterns # <<>>
        /\ obs[t].response[1].payload.red_flags # <<>>
        /\ obs[t].response[1].payload.suggestions # <<>>
        /\ obs[t].pattern_results[1].risk_level = "abuse"
        /\ Report(t).risk_level = "abuse"
        /\ Report(t).risk_score = 6700

\* C30: the workflow_steps of a report returned by a successful run were taken
\* before the last step was marked completed: the first five steps show completed
\* and report_generation running with no result, while get_workflow_status after
\* the run has returned shows all six steps completed and overall_status completed.
C30_SnapshotBeforeLastStep ==
    Returned(1) /\ Report(1).error = None =>
        LET snapshot == Report(1).workflow_steps
            afterwards == get_workflow_status(steps)
        IN  /\ Len(snapshot) = 6
            /\ \A i \in 1..5 : snapshot[i].status = "completed"
            /\ snapshot[6].step = "report_generation"
            /\ snapshot[6].status = "running" /\ ~snapshot[6].has_result
            /\ \A i \in 1..6 : afterwards.steps[i].status = "completed"
            /\ afterwards.steps[6].has_result
            /\ afterwards.overall_status = "completed"

\* the second successful run on the orchestrator has returned: its snapshot shows
\* report_generation running without the result the first run stored there
C30_Witness ==
    /\ Returned(1) /\ Report(1).error = None
    /\ runs = 2
    /\ Len(trail[1][6]) = 3 /\ trail[1][6][1].status = "completed"
    /\ Report(1).workflow_steps[6].status = "running"
    /\ get_workflow_status(steps).overall_status = "completed"

====
